---- MODULE Spec2Model ----
(***************************************************************************)
(* State-machine model of the beta-firmware signing-status service:        *)
(*   api.py          - AppleDB refresh loop, sqlite tables, lookup handler *)
(*   scraper.py      - WikiScraper cycle with its own HTTP semaphore       *)
(*   ios-beta-api.py - threaded BetaScraper with tsschecker                *)
(*   wiki-scraper.py - the file-writing BetaScraper                        *)
(* One behaviour runs one of the programs; `program` says which.           *)
(***************************************************************************)
EXTENDS Integers, Sequences, FiniteSets, TLC

VARIABLES
    program,        \* which of the four scripts this behaviour runs
    \* ---- api.py ----
    firmwares,      \* table firmwares(version, buildid, url, size, devices)
    devices,        \* table devices(identifier, boardconfig)
    buildmanifest,  \* table buildmanifest(boardconfig, buildid, chip_id, board_id, unique_buildid)
    HTTP_SEMAPHORE, \* value of asyncio.Semaphore(100): free units
    a_data,         \* AppleDB._data: the catalog remembered from the last cycle
    a_loop,         \* position of main()/scrape_data
    a_cycles,       \* scrape_data calls started
    a_fetched,      \* scrape_data's local `data`
    a_ftasks,       \* TaskGroup tasks running _bound_scrape_firmware
    a_dtasks,       \* TaskGroup tasks running _scrape_device
    a_req,          \* the GET /betas/{identifier} requests being handled
    \* ---- scraper.py and ios-beta-api.py ----
    betas,          \* table betas(identifier, firmwares)
    \* ---- scraper.py ----
    s_loop,         \* position of main()
    s_cycles,       \* WikiScraper instances built so far
    http_semaphore, \* value of the instance's asyncio.Semaphore(100)
    s_pages,        \* WikiScraper.pages
    s_heap,         \* the firm dicts parse_page has created
    s_api,          \* WikiScraper.api: identifier -> list of references to firm dicts
    s_ipsw,         \* WikiScraper.ipsw_api
    s_ptasks,       \* the gathered get_pages / parse_page tasks
    s_dev,          \* position of `for device in scraper.api.keys()`
    s_dpc,          \* position inside check_device_signed_firmwares
    s_tasks,        \* the gathered check_firmware tasks
    \* ---- ios-beta-api.py ----
    b_loop,         \* position of run_scraper()
    b_cycles,       \* BetaScraper instances built so far
    b_heap,         \* the firm dicts build_api has created
    b_api,          \* BetaScraper.api
    b_build,        \* the executor threads running build_api
    b_sign,         \* the executor threads running get_signing_status
    \* ---- wiki-scraper.py ----
    w_pc,           \* position of main()
    w_heap,         \* the firm dicts build_api has created
    w_api,          \* BetaScraper.api
    w_files,        \* the files under betas/
    \* ---- the TSS request on its own ----
    t_in,           \* chip id, board id and unique build id handed in
    t_out           \* the requests built from them

apiVars == <<firmwares, devices, buildmanifest, HTTP_SEMAPHORE, a_data, a_loop,
             a_cycles, a_fetched, a_ftasks, a_dtasks, a_req>>

scrVars == <<s_loop, s_cycles, http_semaphore, s_pages, s_heap, s_api, s_ipsw,
             s_ptasks, s_dev, s_dpc, s_tasks>>

betaVars == <<b_loop, b_cycles, b_heap, b_api, b_build, b_sign>>

wikiVars == <<w_pc, w_heap, w_api, w_files>>

tssVars == <<t_in, t_out>>

vars == <<program, apiVars, betas, scrVars, betaVars, wikiVars, tssVars>>

(***************************************************************************)
(* Bounds of the model.                                                    *)
(***************************************************************************)
\* refresh cycles a behaviour may start
MaxCycles == 2
\* lookup requests handled at the same time
MaxLookups == 1

(***************************************************************************)
(* Strings.  Python compares str by code point; the characters the model   *)
(* uses are listed in code-point order.                                    *)
(***************************************************************************)
Alphabet == " !&',-./0123456789:<=>ABCDEFGHIJKLMNOPQRSTUVWXYZ[]_abcdefghijklmnopqrstuvwxyz{|}"

Uppercase == "ABCDEFGHIJKLMNOPQRSTUVWXYZ"

Lowercase == "abcdefghijklmnopqrstuvwxyz"

CharAt(s, i) == SubSeq(s, i, i)

Chars == {CharAt(Alphabet, i) : i \in 1..Len(Alphabet)}

\* ord(c), up to the characters the model does not use
Ord == [c \in Chars |-> CHOOSE i \in 1..Len(Alphabet) : CharAt(Alphabet, i) = c]

\* x in s for two str: s has x as a contiguous substring
Contains(s, x) ==
    \E i \in 1..(Len(s) - Len(x) + 1) : SubSeq(s, i, i + Len(x) - 1) = x

\* c.casefold() for one ASCII character
LowerChar ==
    [c \in Chars |->
        IF \E i \in 1..Len(Uppercase) : CharAt(Uppercase, i) = c
        THEN CharAt(Lowercase, CHOOSE i \in 1..Len(Uppercase) : CharAt(Uppercase, i) = c)
        ELSE c]

RECURSIVE casefold(_)
casefold(s) ==
    IF Len(s) = 0 THEN s
    ELSE LowerChar[CharAt(s, 1)] \o casefold(SubSeq(s, 2, Len(s)))

\* a < b for two str
RECURSIVE StrLess(_, _)
StrLess(a, b) ==
    IF Len(b) = 0 THEN FALSE
    ELSE IF Len(a) = 0 THEN TRUE
    ELSE IF CharAt(a, 1) = CharAt(b, 1)
         THEN StrLess(SubSeq(a, 2, Len(a)), SubSeq(b, 2, Len(b)))
         ELSE Ord[CharAt(a, 1)] < Ord[CharAt(b, 1)]

\* ', '.join(seq)
RECURSIVE Join(_)
Join(seq) ==
    IF Len(seq) = 0 THEN ""
    ELSE IF Len(seq) = 1 THEN seq[1]
    ELSE seq[1] \o ", " \o Join(Tail(seq))

\* SQLite's  column LIKE '%needle%'  (ASCII case-insensitive substring)
Like(column, needle) == Contains(casefold(column), casefold(needle))

\* s.lower(), on the ASCII the model uses
lower(s) == casefold(s)

\* s.endswith(x)
EndsWith(s, x) == Len(x) <= Len(s) /\ SubSeq(s, Len(s) - Len(x) + 1, Len(s)) = x

\* s.find(x) + 1: where x first starts in s, 0 when it does not occur
Find(s, x) ==
    IF Contains(s, x)
    THEN CHOOSE i \in 1..(Len(s) - Len(x) + 1) :
            /\ SubSeq(s, i, i + Len(x) - 1) = x
            /\ \A j \in 1..(i - 1) : SubSeq(s, j, j + Len(x) - 1) # x
    ELSE 0

\* s.split(sep)
RECURSIVE Split(_, _)
Split(s, sep) ==
    LET i == Find(s, sep) IN
    IF i = 0 THEN <<s>>
    ELSE <<SubSeq(s, 1, i - 1)>> \o Split(SubSeq(s, i + Len(sep), Len(s)), sep)

\* int(s) for a decimal numeral
RECURSIVE DecValue(_, _)
DecValue(s, acc) ==
    IF Len(s) = 0 THEN acc
    ELSE DecValue(SubSeq(s, 2, Len(s)),
                  acc * 10 + (CHOOSE d \in 0..9 : CharAt("0123456789", d + 1) = CharAt(s, 1)))

int10(s) == DecValue(s, 0)

\* sorted(seq, key=..., reverse=True) with keys[i] the key of seq[i]: Python's
\* sort is stable, and with reverse=True equal keys keep their original order
RECURSIVE InsertDesc(_, _, _)
InsertDesc(ord, i, keys) ==
    IF ord = <<>> THEN <<i>>
    ELSE IF StrLess(keys[Head(ord)], keys[i]) THEN <<i>> \o ord
    ELSE <<Head(ord)>> \o InsertDesc(Tail(ord), i, keys)

RECURSIVE OrderDesc(_, _)
OrderDesc(n, keys) ==
    IF n = 0 THEN <<>> ELSE InsertDesc(OrderDesc(n - 1, keys), n, keys)

SortedDesc(seq, keys) ==
    [k \in 1..Len(seq) |-> seq[OrderDesc(Len(seq), keys)[k]]]

Range(seq) == {seq[i] : i \in 1..Len(seq)}

\* [x for x in seq if Keep(x)]
RECURSIVE SelectIdx(_, _, _)
SelectIdx(seq, keep, i) ==
    IF i > Len(seq) THEN <<>>
    ELSE (IF i \in keep THEN <<seq[i]>> ELSE <<>>) \o SelectIdx(seq, keep, i + 1)

\* int(s, 16) for s = "0x...." (the manifest's ApChipID / ApBoardID strings)
HexDigits == "0123456789ABCDEF"

LowerHexDigits == "0123456789abcdef"

HexDigit(c) ==
    (CHOOSE i \in 1..16 : CharAt(HexDigits, i) = c \/ CharAt(LowerHexDigits, i) = c) - 1

RECURSIVE HexValue(_, _)
HexValue(s, acc) ==
    IF Len(s) = 0 THEN acc
    ELSE HexValue(SubSeq(s, 2, Len(s)), acc * 16 + HexDigit(CharAt(s, 1)))

int16(s) ==
    IF Len(s) >= 2 /\ casefold(SubSeq(s, 1, 2)) = "0x"
    THEN HexValue(SubSeq(s, 3, Len(s)), 0)
    ELSE HexValue(s, 0)

(***************************************************************************)
(* The world outside: the AppleDB catalog, the CDN, the build manifests.   *)
(* UrlA..UrlD are linked by AppleDB, UrlW1..UrlW4 by The iPhone Wiki.      *)
(***************************************************************************)
Absent == "<absent>"

Identity(class, build, behavior, chip, board, ubid) ==
    [Info |-> [DeviceClass |-> class, BuildNumber |-> build,
               RestoreBehavior |-> behavior],
     ApChipID |-> chip, ApBoardID |-> board, UniqueBuildID |-> ubid]

UrlA == "cdn/20A/iPad_Pro_20A5283p.ipsw"

UrlB == "mirror/20A/iPad_Pro_20A5283p.ipsw"

UrlC == "cdn/19A/iPad_Pro_19A5339a.ipsw"

UrlD == "developer.apple.com/19A/iPhone_19A5281j.ipsw"

UrlW1 == "cdn/14A/iPhone_4.0_32bit_14A5261v.ipsw"

UrlW2 == "cdn/14A/iPhone_4.0_32bit_14A5261w.ipsw"

UrlW3 == "cdn/14E/iPhone_4.0_32bit_14E5230e.ipsw"

UrlW4 == "cdn/13E/iPhone_4.0_32bit_13E5181f.ipsw"

\* what a HEAD of url may answer: developer.apple.com wants a login
HeadStatuses(url) == IF url = UrlD THEN {403} ELSE {200, 404}

\* the BuildManifest.plist that belongs to the archive at url, parsed
BuildManifestOf(url) ==
    IF url \in {UrlA, UrlB}
    THEN <<Identity("j120ap", "20A5283p", "Erase", "0x8011", "0x0C", "ub-20A-j120-e"),
           Identity("j120ap", "20A5283p", "Update", "0x8011", "0x0C", "ub-20A-j120-u")>>
    ELSE IF url = UrlC
    THEN <<Identity("j120ap", "19A5339a", "Update", "0x8011", "0x0C", "ub-19A-j120-u"),
           Identity("j171ap", "19A5339a", Absent, "0x8011", "0x18", "ub-19A-j171-x")>>
    ELSE IF url = UrlW1
    THEN <<Identity("n41ap", "14A5261v", "Update", "0x8950", "0x00", "ub-14A-n41-u"),
           Identity("n41ap", "14A5261v", "Erase", "0x8950", "0x00", "ub-14A-n41-e")>>
    ELSE IF url = UrlW2
    THEN <<Identity("n42ap", "14A5261w", "Erase", "0x8950", "0x02", "ub-14A-n42-e"),
           Identity("n41ap", "14A5261w", "Erase", "0x8950", "0x00", "ub-14A-n41-e2")>>
    ELSE IF url = UrlW3
    THEN <<Identity("n42ap", "14E5230e", "Erase", "0x8950", "0x02", "ub-14E-n42-e"),
           Identity("n41ap", "14E5230e", Absent, "0x8950", "0x00", "ub-14E-n41-x"),
           Identity("N41ap", "14E5230e", "Erase", "0x8950", "0x00", "ub-14E-n41-e")>>
    ELSE <<Identity("n41ap", "19A5281j", "Update", "0x8950", "0x00", "ub-19A-n41-u")>>

(***************************************************************************)
(* The world outside: The iPhone Wiki, api.ipsw.me, the archives it links. *)
(***************************************************************************)
\* a row of a firmware table: the cells build_api / parse_page read, with the
\* wikilinks of the device cell and the numbers of the size cell picked out
Row(version, buildcell, devs, urls, sizes) ==
    [version |-> version, buildcell |-> buildcell, devices |-> devs,
     urls |-> urls, sizes |-> sizes]

Titles ==
    <<"Beta Firmware/iPhone", "Beta Firmware/iPhone/9.x",
      "Beta Firmware/iPhone/10.x", "Beta Firmware/Apple TV/7.x">>

\* site.search(query) / the wiki's list=search: the titles that hold the query
WikiSearch(query) ==
    SelectIdx(Titles, {i \in 1..Len(Titles) : Contains(Titles[i], query)}, 1)

\* the rows of the tables of a page
PageRows(title) ==
    IF title = "Beta Firmware/iPhone/10.x"
    THEN <<Row("10.0 beta",
               "{{hl   | n41 = 14A5261v    | n42 = 14A5261w    | }}",
               <<"iPhone5,1", "iPhone5,2">>, <<UrlW1, UrlW2>>, <<2405, 2410>>),
           Row("10.3 beta", "14E5230e", <<"iPhone5,1">>, <<UrlW3>>, <<2511>>),
           Row("10.3 beta 2", "14E5239e", <<"iPhone5,1">>,
               <<"developer.apple.com/download">>, <<2512>>),
           Row("10.3 beta 3", "14E5249d", <<"iPhone5,1">>, <<>>, <<>>),
           Row("10.3 beta 4", "14E5260b", <<"iPhone5,1">>,
               <<"cdn/14E/iPhone_4.0_32bit_14E5260b.ipsw">>, <<7>>)>>
    ELSE IF title = "Beta Firmware/iPhone/9.x"
    THEN <<Row("9.3 beta", "13E5181f", <<"iPhone5,1">>, <<UrlW4>>, <<2304>>)>>
    ELSE <<>>

\* https://api.ipsw.me/v4/devices
IpswDevices ==
    << [identifier |-> "iPhone5,1", boardconfig |-> "N41AP", cpid |-> 35152, bdid |-> 0],
       [identifier |-> "iPhone5,2", boardconfig |-> "N42AP", cpid |-> 35152, bdid |-> 2] >>

Source(type, deviceMap, size, links) ==
    [type |-> type, deviceMap |-> deviceMap, size |-> size,
     links |-> [i \in 1..Len(links) |-> [url |-> links[i]]]]

Firmware(osStr, version, build, beta, sources) ==
    [osStr |-> osStr, version |-> version, build |-> build, beta |-> beta,
     hasSources |-> TRUE, sources |-> sources]

Fw20A == Firmware("iPadOS", "16.0 beta", "20A5283p", TRUE,
                  <<Source("ota", <<"iPad7,1">>, 5, <<UrlD>>),
                    Source("ipsw", <<"iPad7,1">>, 6, <<UrlA, UrlB>>)>>)

Fw19A == Firmware("iPadOS", "15.0 beta 8", "19A5339a", TRUE,
                  <<Source("ipsw", <<"iPad7,1", "iPad7,11">>, 5, <<UrlC>>)>>)

Fw19Aj == Firmware("iOS", "15.0 beta 2", "19A5281j", TRUE,
                   <<Source("ipsw", <<"iPhone5,1">>, 4, <<UrlD>>)>>)

FwRelease == Firmware("iOS", "15.0", "19A344", FALSE,
                      <<Source("ipsw", <<"iPhone5,1">>, 4, <<UrlD>>)>>)

Device(key, type, arch, board) ==
    [key |-> key, type |-> type, arch |-> arch, board |-> board]

DevPad1 == Device("iPad7,1", "iPad Pro", "arm64", <<"J120AP">>)

DevPad11 == Device("iPad7,11", "iPad", "arm64", <<"J171AP">>)

DevWatch == Device("Watch1,1", "Apple Watch", "armv7k", <<"N27aAP">>)

EmptyData == [ios |-> <<>>, device |-> <<>>]

\* what https://api.appledb.dev/main.json may answer on a poll
Catalogs ==
    { [ios |-> <<Fw19A, FwRelease, Fw20A>>, device |-> <<DevPad1, DevWatch>>],
      [ios |-> <<Fw19A, FwRelease, Fw20A, Fw19Aj>>,
       device |-> <<DevPad1, DevWatch, DevPad11>>] }

(***************************************************************************)
(* api.py: AppleDB.scrape_data and the task group it runs.                 *)
(***************************************************************************)
\* units of HTTP_SEMAPHORE (asyncio.Semaphore(100) in the source, scaled down)
Capacity == 2

\* range(5): get_manifest attempts per link
MaxAttempts == 2

Terminal == {"done", "failed", "cancelled"}

\* the local variable `manifest` of _scrape_firmware
Unbound == [tag |-> "unbound", of |-> ""]

NoneValue == [tag |-> "None", of |-> ""]

Bytes(of) == [tag |-> "bytes", of |-> of]

Dict(of) == [tag |-> "dict", of |-> of]

Garbage == "<html>"

\* scrape_data's filter of data['ios'], then firmwares.sort(key=build, reverse=True)
ScrapedFirmwares(data, old) ==
    LET keep == {i \in 1..Len(data.ios) :
                    /\ data.ios[i] \notin Range(old.ios)
                    /\ data.ios[i].osStr \in {"iPadOS", "iOS", "Apple TV Software", "tvOS"}
                    /\ data.ios[i].hasSources
                    /\ data.ios[i].beta}
        kept == SelectIdx(data.ios, keep, 1)
    IN SortedDesc(kept, [i \in 1..Len(kept) |-> kept[i].build])

\* scrape_data's filter of data['device']
ScrapedDevices(data, old) ==
    LET keep == {i \in 1..Len(data.device) :
                    /\ data.device[i] \notin Range(old.device)
                    /\ Contains(data.device[i].arch, "arm")
                    /\ data.device[i].type \in {"iPhone", "iPad", "iPad mini",
                                                "iPad Air", "iPad Pro", "Apple TV"}
                    /\ Len(data.device[i].board) # 0}
    IN SelectIdx(data.device, keep, 1)

FirmwareTask(firm) ==
    [firm |-> firm, pc |-> "created", src |-> 0, lnk |-> 0, attempt |-> 0,
     manifest |-> Unbound, idn |-> 0, held |-> FALSE, cancel |-> FALSE, exc |-> ""]

\* the task ends with the exception exc
Raised(t, exc) == [t EXCEPT !.pc = "failed", !.exc = exc]

DeviceTask(device) == [device |-> device, pc |-> "select", cancel |-> FALSE]

\* for source in firmware['sources']: skip the sources that are not ipsw
RECURSIVE AtSource(_, _)
AtSource(t, s) ==
    IF s > Len(t.firm.sources) THEN [t EXCEPT !.pc = "done"]
    ELSE IF t.firm.sources[s].type # "ipsw" THEN AtSource(t, s + 1)
    ELSE [t EXCEPT !.pc = "select", !.src = s]

\* for link in source['links']: the HEAD probe of link l, or the next source
AtLink(t, l) ==
    IF l > Len(t.firm.sources[t.src].links) THEN AtSource(t, t.src + 1)
    ELSE [t EXCEPT !.pc = "head", !.lnk = l]

LinkUrl(t) == t.firm.sources[t.src].links[t.lnk].url

\* for identity in manifest['BuildIdentities']: the first one from i on that
\* reaches the buildmanifest SELECT
RECURSIVE AtIdentity(_, _)
AtIdentity(t, i) ==
    LET ids == BuildManifestOf(t.manifest.of) IN
    IF i > Len(ids) THEN AtLink(t, t.lnk + 1)
    ELSE IF ids[i].Info.RestoreBehavior = Absent THEN AtIdentity(t, i + 1)
    ELSE IF ids[i].Info.RestoreBehavior = "Erase" THEN AtIdentity(t, i + 1)
    ELSE [t EXCEPT !.pc = "bm_select", !.idn = i]

\* after the attempt loop: `if manifest is None: continue`, plistlib.loads.
\* `manifest` is unbound when every attempt raised on the first link that got
\* this far, and still the dict of the link before when one was parsed
AfterAttempts(t) ==
    IF t.manifest.tag = "unbound" THEN Raised(t, "UnboundLocalError")
    ELSE IF t.manifest.tag = "None" THEN AtLink(t, t.lnk + 1)
    ELSE IF t.manifest.tag = "dict" THEN Raised(t, "TypeError")
    ELSE IF t.manifest.of = Garbage THEN Raised(t, "InvalidFileException")
    ELSE AtIdentity([t EXCEPT !.manifest = Dict(t.manifest.of)], 1)

\* the next turn of `for _ in range(5)`, or what follows the loop
NextAttempt(t) ==
    IF t.attempt < MaxAttempts
    THEN [t EXCEPT !.pc = "sibling", !.attempt = t.attempt + 1]
    ELSE AfterAttempts(t)

\* a limiter that gets its unit back from the tasks that return only
SemaphoreExitOnReturn(value, held, pc) ==
    IF held /\ pc = "done" THEN value + 1 ELSE value

\* `async with HTTP_SEMAPHORE` on the way out: the unit goes back on every exit
SemaphoreExit(value, held, pc) ==
    IF held /\ pc \in Terminal THEN value + 1 ELSE value

\* TaskGroup._abort: the first task that raises gets the others cancelled
Aborted(tasks, except) ==
    [j \in DOMAIN tasks |->
        IF j # except /\ tasks[j].pc \notin Terminal
        THEN [tasks[j] EXCEPT !.cancel = TRUE] ELSE tasks[j]]

\* firmware task i has taken a step and is now `new`; value is the semaphore's
\* value after what the step acquired
FirmwareStep(i, new, value) ==
    LET new2 == IF new.pc \in Terminal
                THEN [FirmwareTask(new.firm) EXCEPT !.pc = new.pc, !.exc = new.exc]
                ELSE new
        first == new.pc = "failed" /\ a_loop = "group"
    IN /\ HTTP_SEMAPHORE' = SemaphoreExit(value, new.held, new.pc)
       /\ a_ftasks' = IF first THEN Aborted([a_ftasks EXCEPT ![i] = new2], i)
                      ELSE [a_ftasks EXCEPT ![i] = new2]
       /\ a_dtasks' = IF first THEN Aborted(a_dtasks, 0) ELSE a_dtasks
       /\ a_loop' = IF first THEN "aborting" ELSE a_loop

Running(tasks, i) ==
    /\ i \in DOMAIN tasks
    /\ tasks[i].pc \notin Terminal
    /\ ~tasks[i].cancel

\* what the other programs own stays as it is
ApiFrame == UNCHANGED <<program, betas, scrVars, betaVars, wikiVars, tssVars>>

\* main(): `while True: await appledb.scrape_data()`, up to the catalog GET
Api_main_loop ==
    /\ program = "api.py"
    /\ a_loop \in {"start", "sleep"}
    /\ a_cycles < MaxCycles
    /\ a_loop' = "fetch"
    /\ a_cycles' = a_cycles + 1
    /\ UNCHANGED <<firmwares, devices, buildmanifest, HTTP_SEMAPHORE, a_data,
                   a_fetched, a_ftasks, a_dtasks, a_req>>
    /\ ApiFrame

\* scrape_data: the catalog answered 200; filter, sort, create the tasks
Api_scrape_data ==
    /\ program = "api.py"
    /\ a_loop = "fetch"
    /\ a_req = <<>>
    /\ \E data \in Catalogs :
        LET fws == ScrapedFirmwares(data, a_data)
            dvs == ScrapedDevices(data, a_data)
        IN /\ a_fetched' = data
           /\ a_ftasks' = [i \in 1..Len(fws) |-> FirmwareTask(fws[i])]
           /\ a_dtasks' = [i \in 1..Len(dvs) |-> DeviceTask(dvs[i])]
    /\ a_loop' = "group"
    /\ UNCHANGED <<firmwares, devices, buildmanifest, HTTP_SEMAPHORE, a_data,
                   a_cycles, a_req>>
    /\ ApiFrame

\* scrape_data: the catalog GET raised or answered another status: the
\* HTTPException leaves scrape_data and main()
Api_scrape_data_raise ==
    /\ program = "api.py"
    /\ a_loop = "fetch"
    /\ a_loop' = "dead"
    /\ UNCHANGED <<firmwares, devices, buildmanifest, HTTP_SEMAPHORE, a_data,
                   a_cycles, a_fetched, a_ftasks, a_dtasks, a_req>>
    /\ ApiFrame

\* _bound_scrape_firmware: `async with HTTP_SEMAPHORE`, then _scrape_firmware
\* up to its first await
Api_bound_scrape_firmware(i) ==
    /\ program = "api.py"
    /\ Running(a_ftasks, i)
    /\ a_ftasks[i].pc = "created"
    /\ HTTP_SEMAPHORE > 0
    /\ FirmwareStep(i, AtSource([a_ftasks[i] EXCEPT !.held = TRUE], 1),
                    HTTP_SEMAPHORE - 1)
    /\ UNCHANGED <<firmwares, devices, buildmanifest, a_data, a_cycles,
                   a_fetched, a_req>>
    /\ ApiFrame

\* SELECT * FROM firmwares WHERE buildid = ? and devices = ?
FirmwareKnown(table, build, deviceMap) ==
    \E r \in 1..Len(table) :
        table[r].buildid = build /\ table[r].devices = Join(deviceMap)

Api_scrape_firmware_select(i) ==
    /\ program = "api.py"
    /\ Running(a_ftasks, i)
    /\ a_ftasks[i].pc = "select"
    /\ LET t == a_ftasks[i] IN
       FirmwareStep(i,
           IF FirmwareKnown(firmwares, t.firm.build, t.firm.sources[t.src].deviceMap)
           THEN AtSource(t, t.src + 1) ELSE AtLink(t, 1),
           HTTP_SEMAPHORE)
    /\ UNCHANGED <<firmwares, devices, buildmanifest, a_data, a_cycles,
                   a_fetched, a_req>>
    /\ ApiFrame

\* session.head(link['url'], timeout=5)
Api_scrape_firmware_head(i) ==
    /\ program = "api.py"
    /\ Running(a_ftasks, i)
    /\ a_ftasks[i].pc = "head"
    /\ LET t == a_ftasks[i] IN
       \/ \E status \in HeadStatuses(LinkUrl(t)) :
            FirmwareStep(i, IF status # 200 THEN AtLink(t, t.lnk + 1)
                            ELSE [t EXCEPT !.pc = "insert"], HTTP_SEMAPHORE)
       \/ FirmwareStep(i, Raised(t, "TimeoutError"), HTTP_SEMAPHORE)
    /\ UNCHANGED <<firmwares, devices, buildmanifest, a_data, a_cycles,
                   a_fetched, a_req>>
    /\ ApiFrame

FirmwareRow(t) ==
    [version |-> t.firm.version, buildid |-> t.firm.build, url |-> LinkUrl(t),
     size |-> t.firm.sources[t.src].size,
     devices |-> Join(t.firm.sources[t.src].deviceMap)]

\* INSERT INTO firmwares ...; commit; then the first get_manifest attempt
Api_scrape_firmware_insert(i) ==
    /\ program = "api.py"
    /\ Running(a_ftasks, i)
    /\ a_ftasks[i].pc = "insert"
    /\ firmwares' = Append(firmwares, FirmwareRow(a_ftasks[i]))
    /\ FirmwareStep(i, [a_ftasks[i] EXCEPT !.pc = "sibling", !.attempt = 1],
                    HTTP_SEMAPHORE)
    /\ UNCHANGED <<devices, buildmanifest, a_data, a_cycles, a_fetched, a_req>>
    /\ ApiFrame

\* get_manifest: the GET of the sibling BuildManifest.plist answers
Api_get_manifest(i) ==
    /\ program = "api.py"
    /\ Running(a_ftasks, i)
    /\ a_ftasks[i].pc = "sibling"
    /\ LET t == a_ftasks[i] IN
       \* 200: `manifest = ...; break`
       \/ \E body \in {LinkUrl(t), Garbage} :
            FirmwareStep(i, AfterAttempts([t EXCEPT !.manifest = Bytes(body)]),
                         HTTP_SEMAPHORE)
       \* another status: asyncio.to_thread(_sync_get_manifest, url)
       \/ FirmwareStep(i, [t EXCEPT !.pc = "archive"], HTTP_SEMAPHORE)
       \* the GET raised: `except: continue`
       \/ FirmwareStep(i, NextAttempt(t), HTTP_SEMAPHORE)
    /\ UNCHANGED <<firmwares, devices, buildmanifest, a_data, a_cycles,
                   a_fetched, a_req>>
    /\ ApiFrame

\* _sync_get_manifest in its worker thread: the member's bytes, or None when
\* RemoteZip raised
Api_sync_get_manifest(i) ==
    /\ program = "api.py"
    /\ Running(a_ftasks, i)
    /\ a_ftasks[i].pc = "archive"
    /\ LET t == a_ftasks[i] IN
       \/ FirmwareStep(i, AfterAttempts([t EXCEPT !.manifest = Bytes(LinkUrl(t))]),
                       HTTP_SEMAPHORE)
       \/ FirmwareStep(i, NextAttempt([t EXCEPT !.manifest = NoneValue]),
                       HTTP_SEMAPHORE)
    /\ UNCHANGED <<firmwares, devices, buildmanifest, a_data, a_cycles,
                   a_fetched, a_req>>
    /\ ApiFrame

TaskIdentity(t) == BuildManifestOf(t.manifest.of)[t.idn]

\* SELECT * FROM buildmanifest WHERE boardconfig = ? AND buildid = ?
Api_buildmanifest_select(i) ==
    /\ program = "api.py"
    /\ Running(a_ftasks, i)
    /\ a_ftasks[i].pc = "bm_select"
    /\ LET t == a_ftasks[i]
           known == \E r \in 1..Len(buildmanifest) :
                        /\ buildmanifest[r].boardconfig = TaskIdentity(t).Info.DeviceClass
                        /\ buildmanifest[r].buildid = TaskIdentity(t).Info.BuildNumber
       IN FirmwareStep(i, IF known THEN AtIdentity(t, t.idn + 1)
                          ELSE [t EXCEPT !.pc = "bm_insert"], HTTP_SEMAPHORE)
    /\ UNCHANGED <<firmwares, devices, buildmanifest, a_data, a_cycles,
                   a_fetched, a_req>>
    /\ ApiFrame

ManifestRow(identity) ==
    [boardconfig |-> identity.Info.DeviceClass,
     buildid |-> identity.Info.BuildNumber,
     chip_id |-> int16(identity.ApChipID),
     board_id |-> int16(identity.ApBoardID),
     unique_buildid |-> identity.UniqueBuildID]

\* INSERT INTO buildmanifest ...; commit
Api_buildmanifest_insert(i) ==
    /\ program = "api.py"
    /\ Running(a_ftasks, i)
    /\ a_ftasks[i].pc = "bm_insert"
    /\ buildmanifest' = Append(buildmanifest, ManifestRow(TaskIdentity(a_ftasks[i])))
    /\ FirmwareStep(i, AtIdentity(a_ftasks[i], a_ftasks[i].idn + 1), HTTP_SEMAPHORE)
    /\ UNCHANGED <<firmwares, devices, a_data, a_cycles, a_fetched, a_req>>
    /\ ApiFrame

\* a cancelled firmware task wakes up with CancelledError: the bare `except:`
\* around get_manifest swallows it, everywhere else it ends the task
Api_firmware_cancelled(i) ==
    /\ program = "api.py"
    /\ i \in DOMAIN a_ftasks
    /\ a_ftasks[i].pc \notin Terminal
    /\ a_ftasks[i].cancel
    /\ LET t == [a_ftasks[i] EXCEPT !.cancel = FALSE] IN
       FirmwareStep(i, IF t.pc \in {"sibling", "archive"} THEN NextAttempt(t)
                       ELSE [t EXCEPT !.pc = "cancelled"], HTTP_SEMAPHORE)
    /\ UNCHANGED <<firmwares, devices, buildmanifest, a_data, a_cycles,
                   a_fetched, a_req>>
    /\ ApiFrame

\* _scrape_device: SELECT * FROM devices WHERE identifier = ? and boardconfig = ?
Api_scrape_device_select(d) ==
    /\ program = "api.py"
    /\ Running(a_dtasks, d)
    /\ a_dtasks[d].pc = "select"
    /\ LET dev == a_dtasks[d].device
           known == \E r \in 1..Len(devices) :
                        /\ devices[r].identifier = dev.key
                        /\ devices[r].boardconfig = dev.board[1]
       IN a_dtasks' = [a_dtasks EXCEPT ![d].pc = IF known THEN "done" ELSE "insert"]
    /\ UNCHANGED <<firmwares, devices, buildmanifest, HTTP_SEMAPHORE, a_data,
                   a_loop, a_cycles, a_fetched, a_ftasks, a_req>>
    /\ ApiFrame

\* _scrape_device: INSERT INTO devices(identifier, boardconfig); commit
Api_scrape_device_insert(d) ==
    /\ program = "api.py"
    /\ Running(a_dtasks, d)
    /\ a_dtasks[d].pc = "insert"
    /\ devices' = Append(devices, [identifier |-> a_dtasks[d].device.key,
                                   boardconfig |-> a_dtasks[d].device.board[1]])
    /\ a_dtasks' = [a_dtasks EXCEPT ![d].pc = "done"]
    /\ UNCHANGED <<firmwares, buildmanifest, HTTP_SEMAPHORE, a_data, a_loop,
                   a_cycles, a_fetched, a_ftasks, a_req>>
    /\ ApiFrame

\* a cancelled device task ends with CancelledError
Api_device_cancelled(d) ==
    /\ program = "api.py"
    /\ d \in DOMAIN a_dtasks
    /\ a_dtasks[d].pc \notin Terminal
    /\ a_dtasks[d].cancel
    /\ a_dtasks' = [a_dtasks EXCEPT ![d].pc = "cancelled", ![d].cancel = FALSE]
    /\ UNCHANGED <<firmwares, devices, buildmanifest, HTTP_SEMAPHORE, a_data,
                   a_loop, a_cycles, a_fetched, a_ftasks, a_req>>
    /\ ApiFrame

\* a wait that is over when the firmware tasks have ended, whatever the device
\* tasks do
FirmwaresFinished ==
    \A i \in DOMAIN a_ftasks : a_ftasks[i].pc \in Terminal

AllFinished ==
    /\ \A i \in DOMAIN a_ftasks : a_ftasks[i].pc \in Terminal
    /\ \A d \in DOMAIN a_dtasks : a_dtasks[d].pc \in Terminal

\* the TaskGroup block ends: `self._data = data`, then asyncio.sleep(60)
Api_scrape_data_return ==
    /\ program = "api.py"
    /\ a_loop = "group"
    /\ AllFinished
    /\ a_data' = a_fetched
    /\ a_loop' = "sleep"
    /\ a_fetched' = EmptyData
    /\ a_ftasks' = <<>>
    /\ a_dtasks' = <<>>
    /\ UNCHANGED <<firmwares, devices, buildmanifest, HTTP_SEMAPHORE, a_cycles,
                   a_req>>
    /\ ApiFrame

\* the TaskGroup block ends after a task raised: the ExceptionGroup leaves
\* scrape_data and main(), whose task nobody awaits
Api_scrape_data_abort ==
    /\ program = "api.py"
    /\ a_loop = "aborting"
    /\ AllFinished
    /\ a_loop' = "dead"
    /\ a_fetched' = EmptyData
    /\ a_ftasks' = <<>>
    /\ a_dtasks' = <<>>
    /\ UNCHANGED <<firmwares, devices, buildmanifest, HTTP_SEMAPHORE, a_data,
                   a_cycles, a_req>>
    /\ ApiFrame

(***************************************************************************)
(* api.py: GET /betas/{identifier} and is_firmware_signed.                 *)
(***************************************************************************)
\* identifiers the lookups ask for
Identifiers == {"iPad7,1", "iPad7,11", "iPhone5,1"}

\* what gs.apple.com/TSS/controller may answer
Bodies ==
    { "STATUS=0&MESSAGE=SUCCESS&REQUEST_STRING=<plist>",
      "STATUS=94&MESSAGE=This device isn't eligible for the requested build.",
      "<html>502 Bad Gateway</html>" }

\* SELECT version, buildid, size, url FROM firmwares WHERE devices LIKE ?
\* and the list of dicts built from fetchall()
RECURSIVE LookupFirmwares(_, _, _)
LookupFirmwares(table, identifier, r) ==
    IF r > Len(table) THEN <<>>
    ELSE (IF Like(table[r].devices, identifier)
          THEN <<[version |-> table[r].version, buildid |-> table[r].buildid,
                  filesize |-> table[r].size, url |-> table[r].url]>>
          ELSE <<>>) \o LookupFirmwares(table, identifier, r + 1)

SignedTask(firmware) ==
    [firmware |-> firmware, pc |-> "created", held |-> FALSE, cancel |-> FALSE,
     boardconfig |-> "", request |-> <<>>, text |-> "", result |-> <<>>]

\* cursor.fetchone() of a SELECT: the first matching row in rowid order, or
\* 0 for None
RECURSIVE FirstTrue(_, _)
FirstTrue(flags, r) ==
    IF r > Len(flags) THEN 0
    ELSE IF flags[r] THEN r
    ELSE FirstTrue(flags, r + 1)

FetchOne(table, Match(_)) ==
    FirstTrue([r \in 1..Len(table) |-> Match(table[r])], 1)

\* the same request with 0x8960 taken for a 32-bit chip as well
TssRequestUpTo8960(chip_id, board_id, unique_buildid) ==
    LET base == [ApChipID |-> chip_id, ApBoardID |-> board_id, ApECID |-> 1,
                 ApSecurityDomain |-> 1, ApNonce |-> "0",
                 ApProductionMode |-> TRUE, UniqueBuildID |-> unique_buildid]
    IN IF 35072 <= chip_id /\ chip_id <= 35168
       THEN base @@ ("@APTicket" :> TRUE)
       ELSE base @@ ("@ApImg4Ticket" :> TRUE) @@ [ApSecurityMode |-> TRUE,
                                                  SepNonce |-> "0"]

\* the TSS request of _is_firmware_signed (lines 250-265)
TssRequest(chip_id, board_id, unique_buildid) ==
    LET base == [ApChipID |-> chip_id, ApBoardID |-> board_id, ApECID |-> 1,
                 ApSecurityDomain |-> 1, ApNonce |-> "0",
                 ApProductionMode |-> TRUE, UniqueBuildID |-> unique_buildid]
    IN IF 35072 <= chip_id /\ chip_id < 35168      \* 0x8900 <= ... < 0x8960
       THEN base @@ ("@APTicket" :> TRUE)
       ELSE base @@ ("@ApImg4Ticket" :> TRUE) @@ [ApSecurityMode |-> TRUE,
                                                  SepNonce |-> "0"]

\* a classification by the word MESSAGE alone
IsSignedByMessage(text) == Contains(text, "MESSAGE=")

\* 'MESSAGE=SUCCESS' in await resp.text()
IsSigned(text) == Contains(text, "MESSAGE=SUCCESS")

\* DELETE FROM firmwares WHERE buildid = ? AND devices LIKE ?
DeleteFirmware(table, buildid, identifier) ==
    SelectIdx(table,
              {r \in 1..Len(table) :
                  ~(table[r].buildid = buildid /\ Like(table[r].devices, identifier))},
              1)

\* subtask k of request q has taken a step and is now `new`
SignedStep(q, k, new, value) ==
    LET new2 == IF new.pc \in Terminal
                THEN [SignedTask(new.firmware) EXCEPT !.pc = new.pc,
                                                      !.text = new.text,
                                                      !.result = new.result]
                ELSE new
        tasks == [a_req[q].tasks EXCEPT ![k] = new2]
        first == new.pc = "failed" /\ a_req[q].pc = "group"
    IN /\ HTTP_SEMAPHORE' = SemaphoreExit(value, new.held, new.pc)
       /\ a_req' = [a_req EXCEPT
                      ![q].tasks = IF first THEN Aborted(tasks, k) ELSE tasks,
                      ![q].pc = IF first THEN "aborting" ELSE a_req[q].pc]

\* get_beta_firmwares is called: connect, SELECT ... LIKE
\* (the model serves requests between task groups, not while one runs)
Api_get_beta_firmwares ==
    /\ program = "api.py"
    /\ Len(a_req) < MaxLookups
    /\ a_loop \notin {"group", "aborting"}
    /\ \E identifier \in Identifiers :
        a_req' = Append(a_req, [identifier |-> identifier, pc |-> "select",
                                tasks |-> <<>>, status |-> 0, response |-> <<>>])
    /\ UNCHANGED <<firmwares, devices, buildmanifest, HTTP_SEMAPHORE, a_data,
                   a_loop, a_cycles, a_fetched, a_ftasks, a_dtasks>>
    /\ ApiFrame

\* fetchall() answers: one is_firmware_signed task per row
Api_get_beta_firmwares_select(q) ==
    /\ program = "api.py"
    /\ q \in DOMAIN a_req
    /\ a_req[q].pc = "select"
    /\ LET rows == LookupFirmwares(firmwares, a_req[q].identifier, 1) IN
       a_req' = [a_req EXCEPT ![q].pc = "group",
                              ![q].tasks = [k \in 1..Len(rows) |-> SignedTask(rows[k])]]
    /\ UNCHANGED <<firmwares, devices, buildmanifest, HTTP_SEMAPHORE, a_data,
                   a_loop, a_cycles, a_fetched, a_ftasks, a_dtasks>>
    /\ ApiFrame

SignedRunning(q, k) ==
    /\ q \in DOMAIN a_req
    /\ Running(a_req[q].tasks, k)

\* is_firmware_signed: `async with HTTP_SEMAPHORE`, up to the devices SELECT
Api_is_firmware_signed(q, k) ==
    /\ program = "api.py"
    /\ SignedRunning(q, k)
    /\ a_req[q].tasks[k].pc = "created"
    /\ HTTP_SEMAPHORE > 0
    /\ SignedStep(q, k, [a_req[q].tasks[k] EXCEPT !.pc = "devices", !.held = TRUE],
                  HTTP_SEMAPHORE - 1)
    /\ UNCHANGED <<firmwares, devices, buildmanifest, a_data, a_loop, a_cycles,
                   a_fetched, a_ftasks, a_dtasks>>
    /\ ApiFrame

\* SELECT boardconfig FROM devices WHERE identifier LIKE ?
Api_signed_devices(q, k) ==
    /\ program = "api.py"
    /\ SignedRunning(q, k)
    /\ a_req[q].tasks[k].pc = "devices"
    /\ LET t == a_req[q].tasks[k]
           MatchDevice(row) == Like(row.identifier, a_req[q].identifier)
           r == FetchOne(devices, MatchDevice)
       IN SignedStep(q, k,
              IF r = 0 THEN [t EXCEPT !.pc = "done"]
              ELSE [t EXCEPT !.pc = "manifest", !.boardconfig = devices[r].boardconfig],
              HTTP_SEMAPHORE)
    /\ UNCHANGED <<firmwares, devices, buildmanifest, a_data, a_loop, a_cycles,
                   a_fetched, a_ftasks, a_dtasks>>
    /\ ApiFrame

\* SELECT chip_id, board_id, unique_buildid FROM buildmanifest
\*   WHERE boardconfig LIKE ? AND buildid = ?
Api_signed_manifest(q, k) ==
    /\ program = "api.py"
    /\ SignedRunning(q, k)
    /\ a_req[q].tasks[k].pc = "manifest"
    /\ LET t == a_req[q].tasks[k]
           MatchManifest(row) == /\ Like(row.boardconfig, t.boardconfig)
                                 /\ row.buildid = t.firmware.buildid
           r == FetchOne(buildmanifest, MatchManifest)
       IN SignedStep(q, k,
              IF r = 0 THEN [t EXCEPT !.pc = "delete"]
              ELSE [t EXCEPT !.pc = "post",
                             !.request = TssRequest(buildmanifest[r].chip_id,
                                                    buildmanifest[r].board_id,
                                                    buildmanifest[r].unique_buildid)],
              HTTP_SEMAPHORE)
    /\ UNCHANGED <<firmwares, devices, buildmanifest, a_data, a_loop, a_cycles,
                   a_fetched, a_ftasks, a_dtasks>>
    /\ ApiFrame

\* `except TypeError:` DELETE FROM firmwares ...; commit; return
Api_signed_delete(q, k) ==
    /\ program = "api.py"
    /\ SignedRunning(q, k)
    /\ a_req[q].tasks[k].pc = "delete"
    /\ firmwares' = DeleteFirmware(firmwares, a_req[q].tasks[k].firmware.buildid,
                                   a_req[q].identifier)
    /\ SignedStep(q, k, [a_req[q].tasks[k] EXCEPT !.pc = "done"], HTTP_SEMAPHORE)
    /\ UNCHANGED <<devices, buildmanifest, a_data, a_loop, a_cycles, a_fetched,
                   a_ftasks, a_dtasks>>
    /\ ApiFrame

\* session.post(TATSU_API, ...) answers, or raises
Api_signed_post(q, k) ==
    /\ program = "api.py"
    /\ SignedRunning(q, k)
    /\ a_req[q].tasks[k].pc = "post"
    /\ LET t == a_req[q].tasks[k] IN
       \/ \E text \in Bodies :
            SignedStep(q, k,
                [t EXCEPT !.pc = "done", !.text = text,
                          !.result = <<t.firmware @@ [signed |-> IsSigned(text)]>>],
                HTTP_SEMAPHORE)
       \/ SignedStep(q, k, [t EXCEPT !.pc = "failed"], HTTP_SEMAPHORE)
    /\ UNCHANGED <<firmwares, devices, buildmanifest, a_data, a_loop, a_cycles,
                   a_fetched, a_ftasks, a_dtasks>>
    /\ ApiFrame

\* a cancelled is_firmware_signed task ends with CancelledError
Api_signed_cancelled(q, k) ==
    /\ program = "api.py"
    /\ q \in DOMAIN a_req
    /\ k \in DOMAIN a_req[q].tasks
    /\ a_req[q].tasks[k].pc \notin Terminal
    /\ a_req[q].tasks[k].cancel
    /\ SignedStep(q, k, [a_req[q].tasks[k] EXCEPT !.pc = "cancelled", !.cancel = FALSE],
                  HTTP_SEMAPHORE)
    /\ UNCHANGED <<firmwares, devices, buildmanifest, a_data, a_loop, a_cycles,
                   a_fetched, a_ftasks, a_dtasks>>
    /\ ApiFrame

\* [task.result() for task in tasks if task.result() is not None]
RECURSIVE Results(_, _)
Results(tasks, k) ==
    IF k > Len(tasks) THEN <<>> ELSE tasks[k].result \o Results(tasks, k + 1)

\* return sorted(firmwares, key=lambda x: x['buildid'], reverse=True)
LookupResponse(tasks) ==
    LET found == Results(tasks, 1)
    IN SortedDesc(found, [k \in 1..Len(found) |-> found[k].buildid])

\* the TaskGroup of the handler ends: the sorted list goes out
Api_get_beta_firmwares_return(q) ==
    /\ program = "api.py"
    /\ q \in DOMAIN a_req
    /\ a_req[q].pc = "group"
    /\ \A k \in DOMAIN a_req[q].tasks : a_req[q].tasks[k].pc \in Terminal
    /\ a_req' = [a_req EXCEPT ![q].pc = "done", ![q].status = 200,
                              ![q].response = LookupResponse(a_req[q].tasks)]
    /\ UNCHANGED <<firmwares, devices, buildmanifest, HTTP_SEMAPHORE, a_data,
                   a_loop, a_cycles, a_fetched, a_ftasks, a_dtasks>>
    /\ ApiFrame

\* the TaskGroup of the handler ends after a task raised: the request fails
Api_get_beta_firmwares_raise(q) ==
    /\ program = "api.py"
    /\ q \in DOMAIN a_req
    /\ a_req[q].pc = "aborting"
    /\ \A k \in DOMAIN a_req[q].tasks : a_req[q].tasks[k].pc \in Terminal
    /\ a_req' = [a_req EXCEPT ![q].pc = "done", ![q].status = 500]
    /\ UNCHANGED <<firmwares, devices, buildmanifest, HTTP_SEMAPHORE, a_data,
                   a_loop, a_cycles, a_fetched, a_ftasks, a_dtasks>>
    /\ ApiFrame

\* the response has gone out: the handler's frame is gone
Api_get_beta_firmwares_sent(q) ==
    /\ program = "api.py"
    /\ q \in DOMAIN a_req
    /\ a_req[q].pc = "done"
    /\ a_req' = SelectIdx(a_req, DOMAIN a_req \ {q}, 1)
    /\ UNCHANGED <<firmwares, devices, buildmanifest, HTTP_SEMAPHORE, a_data,
                   a_loop, a_cycles, a_fetched, a_ftasks, a_dtasks>>
    /\ ApiFrame

InitApi ==
    /\ firmwares = <<>>
    /\ devices = <<>>
    /\ buildmanifest = <<>>
    /\ HTTP_SEMAPHORE = Capacity
    /\ a_data = EmptyData
    /\ a_loop = "start"
    /\ a_cycles = 0
    /\ a_fetched = EmptyData
    /\ a_ftasks = <<>>
    /\ a_dtasks = <<>>
    /\ a_req = <<>>

NextApi ==
    \/ Api_main_loop
    \/ Api_scrape_data
    \/ Api_scrape_data_raise
    \/ \E i \in DOMAIN a_ftasks : Api_bound_scrape_firmware(i)
    \/ \E i \in DOMAIN a_ftasks : Api_scrape_firmware_select(i)
    \/ \E i \in DOMAIN a_ftasks : Api_scrape_firmware_head(i)
    \/ \E i \in DOMAIN a_ftasks : Api_scrape_firmware_insert(i)
    \/ \E i \in DOMAIN a_ftasks : Api_get_manifest(i)
    \/ \E i \in DOMAIN a_ftasks : Api_sync_get_manifest(i)
    \/ \E i \in DOMAIN a_ftasks : Api_buildmanifest_select(i)
    \/ \E i \in DOMAIN a_ftasks : Api_buildmanifest_insert(i)
    \/ \E i \in DOMAIN a_ftasks : Api_firmware_cancelled(i)
    \/ \E d \in DOMAIN a_dtasks : Api_scrape_device_select(d)
    \/ \E d \in DOMAIN a_dtasks : Api_scrape_device_insert(d)
    \/ \E d \in DOMAIN a_dtasks : Api_device_cancelled(d)
    \/ Api_scrape_data_return
    \/ Api_scrape_data_abort
    \/ Api_get_beta_firmwares
    \/ \E q \in DOMAIN a_req : Api_get_beta_firmwares_select(q)
    \/ \E q \in DOMAIN a_req : Api_get_beta_firmwares_return(q)
    \/ \E q \in DOMAIN a_req : Api_get_beta_firmwares_raise(q)
    \/ \E q \in DOMAIN a_req : Api_get_beta_firmwares_sent(q)
    \/ \E q \in DOMAIN a_req : \E k \in DOMAIN a_req[q].tasks : Api_is_firmware_signed(q, k)
    \/ \E q \in DOMAIN a_req : \E k \in DOMAIN a_req[q].tasks : Api_signed_devices(q, k)
    \/ \E q \in DOMAIN a_req : \E k \in DOMAIN a_req[q].tasks : Api_signed_manifest(q, k)
    \/ \E q \in DOMAIN a_req : \E k \in DOMAIN a_req[q].tasks : Api_signed_delete(q, k)
    \/ \E q \in DOMAIN a_req : \E k \in DOMAIN a_req[q].tasks : Api_signed_post(q, k)
    \/ \E q \in DOMAIN a_req : \E k \in DOMAIN a_req[q].tasks : Api_signed_cancelled(q, k)

(***************************************************************************)
(* scraper.py: WikiScraper.get_pages and parse_page.                       *)
(***************************************************************************)
\* the product types main() asks get_pages for (seven in the source, scaled
\* down to the two whose pages the wiki of the model has)
Products == <<"Apple TV", "iPhone">>

\* a firm dict as parse_page creates it; keys is the set of keys it has
Firm(version) ==
    [keys |-> {"version"}, version |-> version, buildid |-> "", url |-> "",
     filesize |-> 0, signed |-> FALSE]

\* int(page['title'].split('/')[2][:-2])
MajorVersion(title) ==
    LET part == Split(title, "/")[3] IN int10(SubSeq(part, 1, Len(part) - 2))

\* the search results of every product type, worked out once
SearchOf ==
    [product_type \in Range(Products) |-> WikiSearch("Beta Firmware/" \o product_type)]

\* get_pages: `for page in data['query']['search']`
RECURSIVE GetPages(_, _, _, _)
GetPages(pages, found, product_type, i) ==
    IF i > Len(found) THEN pages
    ELSE LET skip == \/ ~Contains(found[i], ".x")
                     \/ MajorVersion(found[i])
                            <= (IF ~Contains(product_type, "Apple TV") THEN 9 ELSE 7)
                     \/ found[i] \in Range(pages)
         IN GetPages(IF skip THEN pages ELSE Append(pages, found[i]),
                     found, product_type, i + 1)

\* buildids = firm_data[1].split('   | ') and what follows it
Buildids(cell) ==
    LET parts == Split(cell, "   | ") IN
    IF Len(parts) > 1
    THEN LET mid == SubSeq(parts, 2, Len(parts) - 1)
         IN [b \in 1..Len(mid) |->
                LET halves == Split(mid[b], " = ")
                    last == halves[Len(halves)]
                IN SubSeq(last, 1, Len(last) - 1)]
    ELSE parts

\* Buildids of every build cell of the wiki, worked out once
Cells ==
    UNION {{PageRows(Titles[t])[r].buildcell : r \in 1..Len(PageRows(Titles[t]))} :
           t \in 1..Len(Titles)}

BuildidsOf == [cell \in Cells |-> Buildids(cell)]

\* .ipsw links of the wiki, worked out once
IsIpsw ==
    [url \in UNION {UNION {Range(PageRows(Titles[t])[r].urls) :
                             r \in 1..Len(PageRows(Titles[t]))} :
                     t \in 1..Len(Titles)} |-> EndsWith(url, ".ipsw")]

\* firm_index for device number d (from 0) of n devices
FirmIndex(n, d) ==
    IF (n = 4 /\ d \in {0, 1}) \/ (n = 2 /\ d = 0) THEN 0 ELSE 1

\* self.api is a dict of lists: its keys in insertion order, 0 for a missing key
ApiIndex(api, key) == FirstTrue([i \in 1..Len(api) |-> api[i].key = key], 1)

\* parse_page: `for d in range(len(devices))` over the one dict `firm` (h)
RECURSIVE AppendFirm(_, _, _, _, _)
AppendFirm(st, h, buildids, row, d) ==
    IF d >= Len(row.devices) THEN st
    ELSE LET firm_index == FirmIndex(Len(row.devices), d)
             firm == [st.heap[h] EXCEPT
                        !.buildid = IF Len(buildids) > 1 THEN buildids[firm_index + 1]
                                    ELSE buildids[1],
                        !.url = IF Len(row.urls) > 1 THEN row.urls[firm_index + 1]
                                ELSE row.urls[1],
                        !.filesize = IF Len(row.urls) > 1 THEN row.sizes[firm_index + 1]
                                     ELSE row.sizes[1],
                        !.keys = @ \cup {"buildid", "url", "filesize"}]
             heap == [st.heap EXCEPT ![h] = firm]
             api1 == IF ApiIndex(st.api, row.devices[d + 1]) = 0
                     THEN Append(st.api, [key |-> row.devices[d + 1], list |-> <<>>])
                     ELSE st.api
             k == ApiIndex(api1, row.devices[d + 1])
             known == \E j \in 1..Len(api1[k].list) :
                         heap[api1[k].list[j]].buildid = firm.buildid
         IN IF Cardinality(firm.keys) < 4
            THEN AppendFirm([heap |-> heap, api |-> st.api], h, buildids, row, d + 1)
            ELSE AppendFirm([heap |-> heap,
                             api |-> IF known THEN api1
                                     ELSE [api1 EXCEPT ![k].list = Append(@, h)]],
                            h, buildids, row, d + 1)

\* parse_page: `for firm in range(1, len(table.data()))`
RECURSIVE ParseRows(_, _, _)
ParseRows(st, rows, r) ==
    IF r > Len(rows) THEN st
    ELSE LET row == rows[r]
             ipsw_sizes == SelectIdx(row.sizes,
                                     {i \in 1..Len(row.sizes) : row.sizes[i] > 10}, 1)
             skip == \/ row.urls = <<>>
                     \/ ~\E i \in 1..Len(row.urls) : IsIpsw[row.urls[i]]
                     \/ Len(ipsw_sizes) # Len(row.urls)
         IN ParseRows(IF skip THEN st
                      ELSE AppendFirm([st EXCEPT !.heap = Append(@, Firm(row.version))],
                                      Len(st.heap) + 1, BuildidsOf[row.buildcell],
                                      [row EXCEPT !.sizes = ipsw_sizes], 0),
                      rows, r + 1)

PageTask(arg) == [arg |-> arg, pc |-> "created", held |-> FALSE, cancel |-> FALSE]

\* what the other programs own stays as it is
ScrFrame == UNCHANGED <<program, apiVars, betaVars, wikiVars, tssVars>>

\* main(): `while True: scraper = WikiScraper(session, db)`, the get_pages gather
Scr_main ==
    /\ program = "scraper.py"
    /\ s_loop = "start"
    /\ s_cycles < MaxCycles
    /\ s_cycles' = s_cycles + 1
    /\ http_semaphore' = Capacity
    /\ s_pages' = <<>>
    /\ s_heap' = <<>>
    /\ s_api' = <<>>
    /\ s_ipsw' = FALSE
    /\ s_ptasks' = [i \in 1..Len(Products) |-> PageTask(Products[i])]
    /\ s_loop' = "pages"
    /\ s_tasks' = <<>>
    /\ UNCHANGED <<betas, s_dev, s_dpc>>
    /\ ScrFrame

\* page task p has taken a step and is now `new`: a task that raises ends the
\* gather and main(), and asyncio.run cancels what is still running
PageStep(p, new, value) ==
    LET tasks == [s_ptasks EXCEPT ![p] = new]
        first == new.pc = "failed" /\ s_loop # "dead"
    IN /\ http_semaphore' = SemaphoreExit(value, new.held, new.pc)
       /\ s_ptasks' = IF first THEN Aborted(tasks, p) ELSE tasks
       /\ s_loop' = IF first THEN "dead" ELSE s_loop

\* get_pages: `async with self.http_semaphore`, the search GET goes out
Scr_get_pages(p) ==
    /\ program = "scraper.py"
    /\ s_loop = "pages"
    /\ Running(s_ptasks, p)
    /\ s_ptasks[p].pc = "created"
    /\ http_semaphore > 0
    /\ PageStep(p, [s_ptasks[p] EXCEPT !.pc = "get", !.held = TRUE], http_semaphore - 1)
    /\ UNCHANGED <<betas, s_cycles, s_pages, s_heap, s_api, s_ipsw, s_dev, s_dpc,
                   s_tasks>>
    /\ ScrFrame

\* get_pages: the search answers.  With a status other than 200 `data` stays
\* unbound and the loop over it raises, like a GET that raises itself
Scr_get_pages_response(p) ==
    /\ program = "scraper.py"
    /\ s_loop = "pages"
    /\ Running(s_ptasks, p)
    /\ s_ptasks[p].pc = "get"
    /\ \/ /\ s_pages' = GetPages(s_pages, SearchOf[s_ptasks[p].arg],
                                 s_ptasks[p].arg, 1)
          /\ PageStep(p, [s_ptasks[p] EXCEPT !.pc = "done"], http_semaphore)
       \/ /\ s_pages' = s_pages
          /\ PageStep(p, [s_ptasks[p] EXCEPT !.pc = "failed"], http_semaphore)
    /\ UNCHANGED <<betas, s_cycles, s_heap, s_api, s_ipsw, s_dev, s_dpc, s_tasks>>
    /\ ScrFrame

AllDone(tasks) == \A i \in DOMAIN tasks : tasks[i].pc = "done"

\* main(): the first gather has returned; the parse_page gather
Scr_main_parse ==
    /\ program = "scraper.py"
    /\ s_loop = "pages"
    /\ AllDone(s_ptasks)
    /\ s_ptasks' = [i \in 1..Len(s_pages) |-> PageTask(s_pages[i])]
    /\ s_loop' = "parse"
    /\ UNCHANGED <<betas, s_cycles, http_semaphore, s_pages, s_heap, s_api, s_ipsw,
                   s_dev, s_dpc, s_tasks>>
    /\ ScrFrame

\* parse_page: `async with self.http_semaphore`, the parse GET goes out
Scr_parse_page(p) ==
    /\ program = "scraper.py"
    /\ s_loop = "parse"
    /\ Running(s_ptasks, p)
    /\ s_ptasks[p].pc = "created"
    /\ http_semaphore > 0
    /\ PageStep(p, [s_ptasks[p] EXCEPT !.pc = "get", !.held = TRUE], http_semaphore - 1)
    /\ UNCHANGED <<betas, s_cycles, s_pages, s_heap, s_api, s_ipsw, s_dev, s_dpc,
                   s_tasks>>
    /\ ScrFrame

\* parse_page: the page answers and its tables are read, or resp.json() raises
Scr_parse_page_response(p) ==
    /\ program = "scraper.py"
    /\ s_loop = "parse"
    /\ Running(s_ptasks, p)
    /\ s_ptasks[p].pc = "get"
    /\ \/ LET st == ParseRows([heap |-> s_heap, api |-> s_api],
                              PageRows(s_ptasks[p].arg), 1)
          IN /\ s_heap' = st.heap
             /\ s_api' = st.api
             /\ PageStep(p, [s_ptasks[p] EXCEPT !.pc = "done"], http_semaphore)
       \/ /\ UNCHANGED <<s_heap, s_api>>
          /\ PageStep(p, [s_ptasks[p] EXCEPT !.pc = "failed"], http_semaphore)
    /\ UNCHANGED <<betas, s_cycles, s_pages, s_ipsw, s_dev, s_dpc, s_tasks>>
    /\ ScrFrame

\* a page task cancelled when main() died ends with CancelledError
Scr_page_cancelled(p) ==
    /\ program = "scraper.py"
    /\ p \in DOMAIN s_ptasks
    /\ s_ptasks[p].pc \notin Terminal
    /\ s_ptasks[p].cancel
    /\ PageStep(p, [s_ptasks[p] EXCEPT !.pc = "cancelled", !.cancel = FALSE],
                http_semaphore)
    /\ UNCHANGED <<betas, s_cycles, s_pages, s_heap, s_api, s_ipsw, s_dev, s_dpc,
                   s_tasks>>
    /\ ScrFrame

\* main(): the second gather has returned; `for device in scraper.api.keys()`
Scr_main_devices ==
    /\ program = "scraper.py"
    /\ s_loop = "parse"
    /\ AllDone(s_ptasks)
    /\ s_ptasks' = <<>>
    /\ IF s_api = <<>>
       THEN s_loop' = "start" /\ UNCHANGED <<s_dev, s_dpc>>
       ELSE s_loop' = "device" /\ s_dev' = 1 /\ s_dpc' = "enter"
    /\ UNCHANGED <<betas, s_cycles, http_semaphore, s_pages, s_heap, s_api, s_ipsw,
                   s_tasks>>
    /\ ScrFrame

(***************************************************************************)
(* scraper.py: check_device_signed_firmwares, check_firmware, output.      *)
(***************************************************************************)
\* TATSU_REQUEST of scraper.py
TATSU_REQUEST ==
    [ApChipID |-> 0, ApBoardID |-> 0, ApECID |-> 1, ApSecurityDomain |-> 1,
     ApNonce |-> "0", ApProductionMode |-> TRUE, UniqueBuildID |-> ""]

\* check_firmware: tss_request before the manifest is fetched
CheckFirmwareRequest(device) ==
    LET tss_request == [TATSU_REQUEST EXCEPT !.ApChipID = device.cpid,
                                             !.ApBoardID = device.bdid]
    IN IF 35072 <= device.cpid /\ device.cpid < 35168   \* 0x8900 <= ... < 0x8960
       THEN tss_request @@ ("@APTicket" :> TRUE)
       ELSE tss_request @@ ("@ApImg4Ticket" :> TRUE) @@ [ApSecurityMode |-> TRUE,
                                                         SepNonce |-> "0"]

CheckTask(device, ref) ==
    [device |-> device, ref |-> ref, pc |-> "created", held |-> FALSE,
     cancel |-> FALSE, request |-> <<>>, text |-> "", exc |-> ""]

\* tss_request['UniqueBuildID'] = identity['UniqueBuildID']
WithIdentity(tss_request, identity) ==
    [tss_request EXCEPT !.UniqueBuildID = identity.UniqueBuildID]

\* the device check_device_signed_firmwares works on: its key in self.api and
\* the entry of ipsw_api that `next(...)` picks for it (0: StopIteration)
ScrIdentifier == s_api[s_dev].key

IpswDevice(identifier) ==
    LET Match(d) == casefold(d.identifier) = casefold(identifier)
    IN FetchOne(IpswDevices, Match)

ScrDevice == IpswDevices[IpswDevice(ScrIdentifier)]

\* list.index(x) / list.remove(x) look for the first element equal to x
FirmPosition(api, heap, identifier, ref) ==
    IF ApiIndex(api, identifier) = 0 THEN 0
    ELSE LET list == api[ApiIndex(api, identifier)].list
         IN FirstTrue([j \in 1..Len(list) |-> heap[list[j]] = heap[ref]], 1)

\* self.api[device['identifier']].remove(firm)
RemoveFirm(api, heap, identifier, ref) ==
    LET k == ApiIndex(api, identifier)
        j == FirmPosition(api, heap, identifier, ref)
    IN [api EXCEPT ![k].list = SelectIdx(@, DOMAIN @ \ {j}, 1)]

\* the first identity of the manifest check_firmware accepts, 0 for none
ErasePosition(identities, boardconfig) ==
    FirstTrue([i \in 1..Len(identities) |->
                 /\ identities[i].Info.RestoreBehavior # Absent
                 /\ casefold(identities[i].Info.DeviceClass) = casefold(boardconfig)
                 /\ identities[i].Info.RestoreBehavior = "Erase"], 1)

\* check_firmware task k has taken a step and is now `new`; api is self.api
\* after it.  A task that raises ends the gather and main()
CheckStep(k, new, value) ==
    LET new2 == IF new.pc \in Terminal
                THEN [CheckTask(new.device, new.ref) EXCEPT
                        !.pc = new.pc, !.text = new.text, !.exc = new.exc]
                ELSE new
        tasks == [s_tasks EXCEPT ![k] = new2]
        first == new.pc = "failed" /\ s_loop # "dead"
    IN /\ http_semaphore' = SemaphoreExit(value, new.held, new.pc)
       /\ s_tasks' = IF first THEN Aborted(tasks, k) ELSE tasks
       /\ s_loop' = IF first THEN "dead" ELSE s_loop

\* check_firmware drops the firm (lines 247 and 251): the task is over, and it
\* raises when list.remove finds nothing to remove
Dropped(k, t, value) ==
    IF FirmPosition(s_api, s_heap, t.device.identifier, t.ref) = 0
    THEN /\ s_api' = s_api
         /\ CheckStep(k, Raised(t, "ValueError: list.remove"), value)
    ELSE /\ s_api' = RemoveFirm(s_api, s_heap, t.device.identifier, t.ref)
         /\ CheckStep(k, [t EXCEPT !.pc = "done"], value)

\* _get_manifest has returned the bytes `body`: plistlib.loads, the identity,
\* then the wait for the limiter in front of the POST
Parsed(k, t, body, value) ==
    LET i == IF body = Garbage THEN 0
             ELSE ErasePosition(BuildManifestOf(body), t.device.boardconfig)
    IN IF i = 0 THEN Dropped(k, t, value)
       ELSE /\ s_api' = s_api
            /\ CheckStep(k, [t EXCEPT !.pc = "post_wait",
                                      !.request = WithIdentity(t.request,
                                                               BuildManifestOf(body)[i])],
                         value)

\* check_device_signed_firmwares: the ipsw.me GET goes out under the limiter
\* when ipsw_api is still None, else straight to the gather
Scr_check_device_signed_firmwares ==
    /\ program = "scraper.py"
    /\ s_loop = "device"
    /\ s_dpc = "enter"
    /\ IF ~s_ipsw
       THEN /\ http_semaphore > 0
            /\ http_semaphore' = http_semaphore - 1
            /\ s_dpc' = "ipsw"
            /\ UNCHANGED <<s_tasks, s_loop>>
       ELSE IF IpswDevice(ScrIdentifier) = 0
       THEN /\ s_loop' = "dead"
            /\ UNCHANGED <<http_semaphore, s_dpc, s_tasks>>
       ELSE /\ s_dpc' = "gather"
            /\ s_tasks' = [k \in 1..Len(s_api[s_dev].list) |->
                              CheckTask(ScrDevice, s_api[s_dev].list[k])]
            /\ UNCHANGED <<http_semaphore, s_loop>>
    /\ UNCHANGED <<betas, s_cycles, s_pages, s_heap, s_api, s_ipsw, s_ptasks, s_dev>>
    /\ ScrFrame

\* check_device_signed_firmwares: api.ipsw.me answers (or the GET raises),
\* then `device = next(...)` and the gather of check_firmware
Scr_ipsw_api ==
    /\ program = "scraper.py"
    /\ s_loop = "device"
    /\ s_dpc = "ipsw"
    /\ http_semaphore' = http_semaphore + 1
    /\ \/ /\ IpswDevice(ScrIdentifier) # 0
          /\ s_ipsw' = TRUE
          /\ s_dpc' = "gather"
          /\ s_tasks' = [k \in 1..Len(s_api[s_dev].list) |->
                            CheckTask(ScrDevice, s_api[s_dev].list[k])]
          /\ s_loop' = s_loop
       \/ /\ s_loop' = "dead"
          /\ UNCHANGED <<s_ipsw, s_dpc, s_tasks>>
    /\ UNCHANGED <<betas, s_cycles, s_pages, s_heap, s_api, s_ptasks, s_dev>>
    /\ ScrFrame

\* check_firmware up to the sibling GET of _get_manifest
Scr_check_firmware(k) ==
    /\ program = "scraper.py"
    /\ Running(s_tasks, k)
    /\ s_tasks[k].pc = "created"
    /\ http_semaphore > 0
    /\ CheckStep(k, [s_tasks[k] EXCEPT !.pc = "sibling", !.held = TRUE,
                                       !.request =
                                           CheckFirmwareRequest(s_tasks[k].device)],
                 http_semaphore - 1)
    /\ UNCHANGED <<betas, s_cycles, s_pages, s_heap, s_api, s_ipsw, s_ptasks, s_dev,
                   s_dpc>>
    /\ ScrFrame

\* _get_manifest: the sibling BuildManifest.plist answers
Scr_get_manifest(k) ==
    /\ program = "scraper.py"
    /\ Running(s_tasks, k)
    /\ s_tasks[k].pc = "sibling"
    /\ LET t == [s_tasks[k] EXCEPT !.held = FALSE] IN
       \* 200: `return await resp.read()`
       \/ \E body \in {s_heap[t.ref].url, Garbage} :
            Parsed(k, t, body, http_semaphore + 1)
       \* another status: on to the second `async with`
       \/ /\ s_api' = s_api
          /\ CheckStep(k, [t EXCEPT !.pc = "full_wait"], http_semaphore + 1)
       \* the GET raised: check_firmware's `except:`
       \/ Dropped(k, t, http_semaphore + 1)
    /\ UNCHANGED <<betas, s_cycles, s_pages, s_heap, s_ipsw, s_ptasks, s_dev, s_dpc>>
    /\ ScrFrame

\* _get_manifest: the second `async with self.http_semaphore`, GET firm['url']
Scr_get_manifest_url(k) ==
    /\ program = "scraper.py"
    /\ Running(s_tasks, k)
    /\ s_tasks[k].pc = "full_wait"
    /\ http_semaphore > 0
    /\ CheckStep(k, [s_tasks[k] EXCEPT !.pc = "full", !.held = TRUE],
                 http_semaphore - 1)
    /\ UNCHANGED <<betas, s_cycles, s_pages, s_heap, s_api, s_ipsw, s_ptasks, s_dev,
                   s_dpc>>
    /\ ScrFrame

\* _get_manifest: the archive's URL answers
Scr_get_manifest_status(k) ==
    /\ program = "scraper.py"
    /\ Running(s_tasks, k)
    /\ s_tasks[k].pc = "full"
    /\ LET t == s_tasks[k] IN
       \* 200: asyncio.to_thread(self._sync_get_manifest, firm), unit still held
       \/ /\ s_api' = s_api
          /\ CheckStep(k, [t EXCEPT !.pc = "archive"], http_semaphore)
       \* another status returns None, and plistlib.loads(None) raises; or the
       \* GET raised: check_firmware's `except:` either way
       \/ Dropped(k, [t EXCEPT !.held = FALSE], http_semaphore + 1)
    /\ UNCHANGED <<betas, s_cycles, s_pages, s_heap, s_ipsw, s_ptasks, s_dev, s_dpc>>
    /\ ScrFrame

\* _sync_get_manifest in its worker thread: the member's bytes, or None
Scr_sync_get_manifest(k) ==
    /\ program = "scraper.py"
    /\ Running(s_tasks, k)
    /\ s_tasks[k].pc = "archive"
    /\ LET t == [s_tasks[k] EXCEPT !.held = FALSE] IN
       \/ Parsed(k, t, s_heap[t.ref].url, http_semaphore + 1)
       \/ Dropped(k, t, http_semaphore + 1)
    /\ UNCHANGED <<betas, s_cycles, s_pages, s_heap, s_ipsw, s_ptasks, s_dev, s_dpc>>
    /\ ScrFrame

\* check_firmware: `async with self.http_semaphore`, the POST goes out
Scr_check_firmware_post(k) ==
    /\ program = "scraper.py"
    /\ Running(s_tasks, k)
    /\ s_tasks[k].pc = "post_wait"
    /\ http_semaphore > 0
    /\ CheckStep(k, [s_tasks[k] EXCEPT !.pc = "post", !.held = TRUE],
                 http_semaphore - 1)
    /\ UNCHANGED <<betas, s_cycles, s_pages, s_heap, s_api, s_ipsw, s_ptasks, s_dev,
                   s_dpc>>
    /\ ScrFrame

\* check_firmware: Tatsu answers and `signed` is set on the list's element
\* that equals firm; or the POST raises, or list.index finds nothing
Scr_check_firmware_signed(k) ==
    /\ program = "scraper.py"
    /\ Running(s_tasks, k)
    /\ s_tasks[k].pc = "post"
    /\ LET t == s_tasks[k]
           list == s_api[ApiIndex(s_api, t.device.identifier)].list
           firm_index == FirmPosition(s_api, s_heap, t.device.identifier, t.ref)
       IN \/ \E text \in Bodies :
               IF firm_index = 0
               THEN /\ s_heap' = s_heap
                    /\ CheckStep(k, Raised(t, "ValueError: list.index"), http_semaphore)
               ELSE /\ s_heap' = [s_heap EXCEPT
                           ![list[firm_index]] =
                               [@ EXCEPT !.signed = IsSigned(text),
                                         !.keys = @ \cup {"signed"}]]
                    /\ CheckStep(k, [t EXCEPT !.pc = "done", !.text = text],
                                 http_semaphore)
          \/ /\ s_heap' = s_heap
             /\ CheckStep(k, Raised(t, "ClientError"), http_semaphore)
    /\ UNCHANGED <<betas, s_cycles, s_pages, s_api, s_ipsw, s_ptasks, s_dev, s_dpc>>
    /\ ScrFrame

\* a check_firmware task cancelled when main() died ends with CancelledError,
\* unless it waits in _get_manifest, where check_firmware's `except:` takes it
Scr_check_firmware_cancelled(k) ==
    /\ program = "scraper.py"
    /\ k \in DOMAIN s_tasks
    /\ s_tasks[k].pc \notin Terminal
    /\ s_tasks[k].cancel
    /\ LET t == [s_tasks[k] EXCEPT !.cancel = FALSE] IN
       IF t.pc \in {"sibling", "full_wait", "full", "archive"}
       THEN Dropped(k, [t EXCEPT !.held = FALSE],
                    IF t.held THEN http_semaphore + 1 ELSE http_semaphore)
       ELSE /\ s_api' = s_api
            /\ CheckStep(k, [t EXCEPT !.pc = "cancelled"], http_semaphore)
    /\ UNCHANGED <<betas, s_cycles, s_pages, s_heap, s_ipsw, s_ptasks, s_dev, s_dpc>>
    /\ ScrFrame

\* ujson.dumps / json.dumps of a list of firm dicts: each dict with the keys
\* it has
Dumps(list) ==
    [i \in 1..Len(list) |-> [key \in list[i].keys |-> list[i][key]]]

\* the firm dicts a list of self.api refers to
Deref(heap, list) == [j \in 1..Len(list) |-> heap[list[j]]]

\* sorted(self.api[identifier], key=lambda firm: firm['buildid'], reverse=True)
ByBuildid(list) == SortedDesc(list, [j \in 1..Len(list) |-> list[j].buildid])

\* UPDATE betas SET firmwares = ? WHERE identifier = ?, or INSERT, by what
\* the SELECT found
Upsert(table, identifier, json_data) ==
    IF \E r \in 1..Len(table) : table[r].identifier = identifier
    THEN [r \in 1..Len(table) |->
            IF table[r].identifier = identifier
            THEN [table[r] EXCEPT !.firmwares = json_data] ELSE table[r]]
    ELSE Append(table, [identifier |-> identifier, firmwares |-> json_data])

\* output_device_data once the gather has returned, then the next device or
\* the next turn of `while True`
Scr_output_device_data ==
    /\ program = "scraper.py"
    /\ s_loop = "device"
    /\ s_dpc = "gather"
    /\ AllDone(s_tasks)
    /\ betas' = Upsert(betas, lower(ScrIdentifier),
                       Dumps(ByBuildid(Deref(s_heap, s_api[s_dev].list))))
    /\ IF s_dev < Len(s_api)
       THEN s_dev' = s_dev + 1 /\ s_dpc' = "enter" /\ s_loop' = s_loop
       ELSE s_dev' = 0 /\ s_dpc' = "" /\ s_loop' = "start"
    /\ UNCHANGED <<s_cycles, http_semaphore, s_pages, s_heap, s_api, s_ipsw, s_ptasks,
                   s_tasks>>
    /\ ScrFrame

InitScr ==
    /\ s_loop = "start"
    /\ s_cycles = 0
    /\ http_semaphore = Capacity
    /\ s_pages = <<>>
    /\ s_heap = <<>>
    /\ s_api = <<>>
    /\ s_ipsw = FALSE
    /\ s_ptasks = <<>>
    /\ s_dev = 0
    /\ s_dpc = ""
    /\ s_tasks = <<>>

NextScr ==
    \/ Scr_main
    \/ \E p \in DOMAIN s_ptasks : Scr_get_pages(p)
    \/ \E p \in DOMAIN s_ptasks : Scr_get_pages_response(p)
    \/ \E p \in DOMAIN s_ptasks : Scr_parse_page(p)
    \/ \E p \in DOMAIN s_ptasks : Scr_parse_page_response(p)
    \/ \E p \in DOMAIN s_ptasks : Scr_page_cancelled(p)
    \/ Scr_main_parse
    \/ Scr_main_devices
    \/ Scr_check_device_signed_firmwares
    \/ Scr_ipsw_api
    \/ \E k \in DOMAIN s_tasks : Scr_check_firmware(k)
    \/ \E k \in DOMAIN s_tasks : Scr_get_manifest(k)
    \/ \E k \in DOMAIN s_tasks : Scr_get_manifest_url(k)
    \/ \E k \in DOMAIN s_tasks : Scr_get_manifest_status(k)
    \/ \E k \in DOMAIN s_tasks : Scr_sync_get_manifest(k)
    \/ \E k \in DOMAIN s_tasks : Scr_check_firmware_post(k)
    \/ \E k \in DOMAIN s_tasks : Scr_check_firmware_signed(k)
    \/ \E k \in DOMAIN s_tasks : Scr_check_firmware_cancelled(k)
    \/ Scr_output_device_data

(***************************************************************************)
(* ios-beta-api.py: BetaScraper in the threads of run_scraper.             *)
(***************************************************************************)
\* the device_types tuples run_scraper submits build_api with
DeviceTypes ==
    << <<"Apple TV">>, <<"iPod touch">>, <<"iPhone">>,
       <<"iPad", "iPad Air", "iPad Pro", "iPad Mini">> >>

\* build_api: the titles of site.search('Beta Firmware/') it goes on with.
\* `major_version < 9 if 'Apple TV' not in title else 7` is 7, which is true,
\* for every Apple TV page
BuildPages(device_types) ==
    LET found == WikiSearch("Beta Firmware/")
        keep == {i \in 1..Len(found) :
                    /\ Contains(found[i], ".x")
                    /\ \E x \in Range(device_types) : Contains(found[i], x)
                    /\ ~(IF ~Contains(found[i], "Apple TV")
                         THEN MajorVersion(found[i]) < 9 ELSE TRUE)}
    IN SelectIdx(found, keep, 1)

\* BuildPages of every tuple of device types in use, worked out once
AllDeviceTypes ==
    <<"Apple TV", "iPad", "iPad Air", "iPad Pro", "iPad Mini", "iPhone", "iPod touch">>

BuildPagesOf ==
    [device_types \in Range(DeviceTypes) \cup {AllDeviceTypes} |->
        BuildPages(device_types)]

\* what tsschecker may print
StdoutSigned == "Build 14A5261v for device iPhone5,1 IS being signed!"

StdoutUnsigned == "Build 14A5261v for device iPhone5,1 IS NOT being signed!"

StdoutError == "[Error] TSS request failed: Couldn't resolve host name"

Stdouts == {StdoutSigned, StdoutUnsigned, StdoutError}

BuildThread(device_types) ==
    [device_types |-> device_types, pc |-> "search", pages |-> <<>>]

\* cur is the firm of this turn of the loop, stdout what tsschecker printed
\* for it ("" before it has run)
SignThread(device) ==
    [device |-> device, pc |-> "board", idx |-> 0, cur |-> 0, stdout |-> ""]

\* what the other programs own stays as it is
BetaFrame == UNCHANGED <<program, apiVars, scrVars, wikiVars, tssVars>>

\* run_scraper: `while True: scraper = BetaScraper(...)`, the four submits
Beta_run_scraper ==
    /\ program = "ios-beta-api.py"
    /\ b_loop \in {"start", "sleep"}
    /\ b_cycles < MaxCycles
    /\ b_cycles' = b_cycles + 1
    /\ b_heap' = <<>>
    /\ b_api' = <<>>
    /\ b_build' = [i \in 1..Len(DeviceTypes) |-> BuildThread(DeviceTypes[i])]
    /\ b_sign' = <<>>
    /\ b_loop' = "build"
    /\ UNCHANGED betas
    /\ BetaFrame

\* build_api: site.search answers and the titles are filtered, or it raises
Beta_build_api(th) ==
    /\ program = "ios-beta-api.py"
    /\ th \in DOMAIN b_build
    /\ b_build[th].pc = "search"
    /\ \/ LET pages == BuildPagesOf[b_build[th].device_types] IN
          b_build' = [b_build EXCEPT ![th].pages = pages,
                                     ![th].pc = IF pages = <<>> THEN "done" ELSE "page"]
       \/ b_build' = [b_build EXCEPT ![th].pc = "failed"]
    /\ UNCHANGED <<betas, b_loop, b_cycles, b_heap, b_api, b_sign>>
    /\ BetaFrame

\* build_api: the text of the next page answers and its tables are read, or
\* the request raises
Beta_build_api_page(th) ==
    /\ program = "ios-beta-api.py"
    /\ th \in DOMAIN b_build
    /\ b_build[th].pc = "page"
    /\ \/ LET st == ParseRows([heap |-> b_heap, api |-> b_api],
                              PageRows(Head(b_build[th].pages)), 1)
              rest == Tail(b_build[th].pages)
          IN /\ b_heap' = st.heap
             /\ b_api' = st.api
             /\ b_build' = [b_build EXCEPT ![th].pages = rest,
                                           ![th].pc = IF rest = <<>> THEN "done"
                                                      ELSE "page"]
       \/ /\ b_build' = [b_build EXCEPT ![th].pc = "failed", ![th].pages = <<>>]
          /\ UNCHANGED <<b_heap, b_api>>
    /\ UNCHANGED <<betas, b_loop, b_cycles, b_sign>>
    /\ BetaFrame

\* run_scraper: `[scraper.result() for scraper in scrapers]`, which raises what
\* a build_api raised, then one get_signing_status per key of scraper.api
Beta_results ==
    /\ program = "ios-beta-api.py"
    /\ b_loop = "build"
    /\ \A th \in DOMAIN b_build : b_build[th].pc \in {"done", "failed"}
    /\ IF \E th \in DOMAIN b_build : b_build[th].pc = "failed"
       THEN b_loop' = "dead" /\ b_sign' = b_sign
       ELSE /\ b_loop' = "sign"
            /\ b_sign' = [i \in 1..Len(b_api) |-> SignThread(b_api[i].key)]
    /\ b_build' = <<>>
    /\ UNCHANGED <<betas, b_cycles, b_heap, b_api>>
    /\ BetaFrame

\* get_signing_status: the next turn of `for firm in self.api[device]`, whose
\* iterator goes by position in the list as the list is now
NextFirm(t, api) ==
    LET list == api[ApiIndex(api, t.device)].list IN
    IF t.idx < Len(list)
    THEN [t EXCEPT !.pc = "zip", !.idx = t.idx + 1, !.cur = list[t.idx + 1],
                   !.stdout = ""]
    ELSE [t EXCEPT !.pc = "done"]

\* get_signing_status: api.ipsw.me answers with the board config, or the
\* request raises and the thread ends there
Beta_get_signing_status(th) ==
    /\ program = "ios-beta-api.py"
    /\ th \in DOMAIN b_sign
    /\ b_sign[th].pc = "board"
    /\ \/ b_sign' = [b_sign EXCEPT ![th] = NextFirm(b_sign[th], b_api)]
       \/ b_sign' = [b_sign EXCEPT ![th].pc = "failed"]
    /\ UNCHANGED <<betas, b_loop, b_cycles, b_heap, b_api, b_build>>
    /\ BetaFrame

\* get_signing_status: RemoteZip extracts the manifest, or raises and the firm
\* is popped from the list
Beta_remotezip(th) ==
    /\ program = "ios-beta-api.py"
    /\ th \in DOMAIN b_sign
    /\ b_sign[th].pc = "zip"
    /\ LET t == b_sign[th] IN
       \/ /\ b_sign' = [b_sign EXCEPT ![th].pc = "tss"]
          /\ b_api' = b_api
       \/ LET api == RemoveFirm(b_api, b_heap, t.device, t.cur) IN
          /\ b_api' = api
          /\ b_sign' = [b_sign EXCEPT ![th] = NextFirm([t EXCEPT !.stdout = ""], api)]
    /\ UNCHANGED <<betas, b_loop, b_cycles, b_heap, b_build>>
    /\ BetaFrame

\* get_signing_status: tsschecker has run; firm['signed'] from its stdout
Beta_tsschecker(th) ==
    /\ program = "ios-beta-api.py"
    /\ th \in DOMAIN b_sign
    /\ b_sign[th].pc = "tss"
    /\ \E stdout \in Stdouts :
        /\ b_heap' = [b_heap EXCEPT ![b_sign[th].cur] =
                         [@ EXCEPT !.signed = Contains(stdout, "IS being signed!"),
                                   !.keys = @ \cup {"signed"}]]
        /\ b_sign' = [b_sign EXCEPT
                         ![th] = NextFirm([b_sign[th] EXCEPT !.stdout = stdout], b_api)]
    /\ UNCHANGED <<betas, b_loop, b_cycles, b_api, b_build>>
    /\ BetaFrame

\* output_data: `for device in self.api.keys()`: INSERT INTO betas
RECURSIVE OutputData(_, _, _, _)
OutputData(table, api, heap, i) ==
    IF i > Len(api) THEN table
    ELSE OutputData(Append(table,
                           [identifier |-> lower(api[i].key),
                            firmwares |-> Dumps(ByBuildid(Deref(heap, api[i].list)))]),
                    api, heap, i + 1)

\* run_scraper: the executor's `with` block ends when every thread has ended;
\* scraper.output_data(), then time.sleep(1800)
Beta_output_data ==
    /\ program = "ios-beta-api.py"
    /\ b_loop = "sign"
    /\ \A th \in DOMAIN b_sign : b_sign[th].pc \in {"done", "failed"}
    /\ betas' = OutputData(betas, b_api, b_heap, 1)
    /\ b_loop' = "sleep"
    /\ UNCHANGED <<b_cycles, b_heap, b_api, b_build, b_sign>>
    /\ BetaFrame

InitBeta ==
    /\ b_loop = "start"
    /\ b_cycles = 0
    /\ b_heap = <<>>
    /\ b_api = <<>>
    /\ b_build = <<>>
    /\ b_sign = <<>>

NextBeta ==
    \/ Beta_run_scraper
    \/ \E th \in DOMAIN b_build : Beta_build_api(th)
    \/ \E th \in DOMAIN b_build : Beta_build_api_page(th)
    \/ Beta_results
    \/ \E th \in DOMAIN b_sign : Beta_get_signing_status(th)
    \/ \E th \in DOMAIN b_sign : Beta_remotezip(th)
    \/ \E th \in DOMAIN b_sign : Beta_tsschecker(th)
    \/ Beta_output_data

(***************************************************************************)
(* wiki-scraper.py: BetaScraper.build_api and write_api.                   *)
(***************************************************************************)
\* a firm dict as wiki-scraper.py's build_api creates it
WikiFirm(version, buildid) ==
    [keys |-> {"version", "buildid"}, version |-> version, buildid |-> buildid,
     url |-> "", size |-> 0]

\* build_api: `for d in range(len(devices))` over the one dict `firm` (h)
RECURSIVE WikiAppendFirm(_, _, _, _)
WikiAppendFirm(st, h, row, d) ==
    IF d >= Len(row.devices) THEN st
    ELSE LET second == Len(row.urls) > 1 /\ d \notin {0, 1}
             firm == [st.heap[h] EXCEPT
                        !.url = IF second THEN row.urls[2] ELSE row.urls[1],
                        !.size = IF second THEN row.sizes[2] ELSE row.sizes[1],
                        !.keys = @ \cup {"url", "size"}]
             heap == [st.heap EXCEPT ![h] = firm]
             api1 == IF ApiIndex(st.api, row.devices[d + 1]) = 0
                     THEN Append(st.api, [key |-> row.devices[d + 1], list |-> <<>>])
                     ELSE st.api
             k == ApiIndex(api1, row.devices[d + 1])
             known == \E j \in 1..Len(api1[k].list) :
                         heap[api1[k].list[j]].buildid = firm.buildid
         IN IF Cardinality(firm.keys) < 4
            THEN WikiAppendFirm([heap |-> heap, api |-> st.api], h, row, d + 1)
            ELSE WikiAppendFirm([heap |-> heap,
                                 api |-> IF known THEN api1
                                         ELSE [api1 EXCEPT ![k].list = Append(@, h)]],
                                h, row, d + 1)

\* build_api: `for firm in range(1, len(table.data()))`
RECURSIVE WikiParseRows(_, _, _)
WikiParseRows(st, rows, r) ==
    IF r > Len(rows) THEN st
    ELSE LET row == rows[r]
             ipsw_sizes == SelectIdx(row.sizes,
                                     {i \in 1..Len(row.sizes) : row.sizes[i] > 10}, 1)
             skip == \/ row.urls = <<>>
                     \/ ~\E i \in 1..Len(row.urls) : IsIpsw[row.urls[i]]
                     \/ Len(ipsw_sizes) # Len(row.urls)
         IN WikiParseRows(
              IF skip THEN st
              ELSE WikiAppendFirm(
                     [st EXCEPT !.heap = Append(@, WikiFirm(row.version, row.buildcell))],
                     Len(st.heap) + 1, [row EXCEPT !.sizes = ipsw_sizes], 0),
              rows, r + 1)

\* build_api: `for result in self.site.search('Beta Firmware/')`
RECURSIVE WikiBuildApi(_, _, _)
WikiBuildApi(st, pages, i) ==
    IF i > Len(pages) THEN st
    ELSE WikiBuildApi(WikiParseRows(st, PageRows(pages[i]), 1), pages, i + 1)

\* what the other programs own stays as it is
WikiFrame == UNCHANGED <<program, apiVars, betas, scrVars, betaVars, tssVars>>

\* main(): scraper.build_api(), which a failing wiki request ends with its
\* exception
Wiki_build_api ==
    /\ program = "wiki-scraper.py"
    /\ w_pc = "start"
    /\ \/ LET st == WikiBuildApi([heap |-> <<>>, api |-> <<>>],
                                 BuildPagesOf[AllDeviceTypes], 1)
          IN /\ w_heap' = st.heap
             /\ w_api' = st.api
             /\ w_pc' = "built"
       \/ /\ w_pc' = "dead"
          /\ UNCHANGED <<w_heap, w_api>>
    /\ UNCHANGED w_files
    /\ WikiFrame

\* sorted(self.api[device], key=lambda firm: firm['version'], reverse=True)
ByVersion(list) == SortedDesc(list, [j \in 1..Len(list) |-> list[j].version])

\* write_api: the directory is made anew, one file per device
Wiki_write_api ==
    /\ program = "wiki-scraper.py"
    /\ w_pc = "built"
    /\ w_files' = [i \in 1..Len(w_api) |->
                     [name |-> "betas/" \o w_api[i].key,
                      json |-> Dumps(ByVersion(Deref(w_heap, w_api[i].list)))]]
    /\ w_pc' = "written"
    /\ UNCHANGED <<w_heap, w_api>>
    /\ WikiFrame

\* main(): exit()
Wiki_exit ==
    /\ program = "wiki-scraper.py"
    /\ w_pc = "written"
    /\ w_pc' = "exited"
    /\ UNCHANGED <<w_heap, w_api, w_files>>
    /\ WikiFrame

InitWiki ==
    /\ w_pc = "start"
    /\ w_heap = <<>>
    /\ w_api = <<>>
    /\ w_files = <<>>

NextWiki ==
    \/ Wiki_build_api
    \/ Wiki_write_api
    \/ Wiki_exit

(***************************************************************************)
(* The four programs together.                                             *)
(***************************************************************************)
Init ==
    /\ program \in {"api.py", "scraper.py", "ios-beta-api.py", "wiki-scraper.py"}
    /\ betas = <<>>
    /\ InitApi
    /\ InitScr
    /\ InitBeta
    /\ InitWiki
    /\ t_in = <<>>
    /\ t_out = <<>>

Next == NextApi \/ NextScr \/ NextBeta \/ NextWiki

Spec == Init /\ [][Next]_vars

(***************************************************************************)
(* The signing request on its own: _is_firmware_signed (api.py) and        *)
(* check_firmware (scraper.py) build it from a chip id, a board id and the *)
(* unique build id of an identity.                                         *)
(***************************************************************************)
\* chip ids on both sides of 0x8900 and of 0x8960, and some far from them
ChipIds ==
    {int16(c) : c \in {"0x0", "0x8010", "0x88FF", "0x8900", "0x8901", "0x8950",
                       "0x895F", "0x8960", "0x8961", "0x8101"}}

BoardIds == {int16(b) : b \in {"0x00", "0x02"}}

UniqueBuildIDs == {"ubid-n41ap", "ubid-n42ap"}

TssInputs ==
    [chip_id : ChipIds, board_id : BoardIds, unique_buildid : UniqueBuildIDs]

TssFrame == UNCHANGED <<program, apiVars, betas, scrVars, betaVars, wikiVars>>

\* api.py, _is_firmware_signed lines 250-265, on the row fetched for the pair
Tss_is_firmware_signed ==
    /\ program = "tss_request"
    /\ t_out.api = <<>>
    /\ t_out' = [t_out EXCEPT !.api = <<TssRequest(t_in.chip_id, t_in.board_id,
                                                   t_in.unique_buildid)>>]
    /\ UNCHANGED t_in
    /\ TssFrame

\* scraper.py, check_firmware lines 220-229, on the device of ipsw_api
Tss_check_firmware ==
    /\ program = "tss_request"
    /\ t_out.scraper = <<>>
    /\ t_out' = [t_out EXCEPT !.scraper =
                     <<CheckFirmwareRequest([cpid |-> t_in.chip_id,
                                             bdid |-> t_in.board_id])>>]
    /\ UNCHANGED t_in
    /\ TssFrame

\* scraper.py, check_firmware line 254, on the identity the loop has chosen
Tss_check_firmware_identity ==
    /\ program = "tss_request"
    /\ t_out.scraper # <<>>
    /\ ~t_out.identity
    /\ t_out' = [t_out EXCEPT
                    !.scraper = <<WithIdentity(t_out.scraper[1],
                                               [UniqueBuildID |-> t_in.unique_buildid])>>,
                    !.identity = TRUE]
    /\ UNCHANGED t_in
    /\ TssFrame

InitTss ==
    /\ program = "tss_request"
    /\ betas = <<>>
    /\ InitApi
    /\ InitScr
    /\ InitBeta
    /\ InitWiki
    /\ t_in \in TssInputs
    /\ t_out = [api |-> <<>>, scraper |-> <<>>, identity |-> FALSE]

NextTss ==
    \/ Tss_is_firmware_signed
    \/ Tss_check_firmware
    \/ Tss_check_firmware_identity

SpecTss == InitTss /\ [][NextTss]_vars

(***************************************************************************)
(* Properties.                                                             *)
(***************************************************************************)
\* a task that is inside its `async with` of the limiter
Holding(t) == t.held /\ t.pc \notin Terminal

\* the is_firmware_signed tasks of all lookup requests, as <<request, task>>
SignedTasks == UNION {{<<q, k>> : k \in DOMAIN a_req[q].tasks} : q \in DOMAIN a_req}

SignedTaskOf(qk) == a_req[qk[1]].tasks[qk[2]]

\* a refresh cycle has run to its end
ApiCycleCompleted == program = "api.py" /\ a_loop = "sleep"

BetaCycleCompleted == program = "ios-beta-api.py" /\ b_loop = "sleep"

ScrCycleCompleted == program = "scraper.py" /\ s_loop = "start" /\ s_cycles > 0

NoDuplicateFirmwares ==
    \A r1, r2 \in DOMAIN firmwares :
        r1 # r2 => ~(/\ firmwares[r1].buildid = firmwares[r2].buildid
                     /\ firmwares[r1].devices = firmwares[r2].devices)

NoDuplicateIdentifiers ==
    \A r1, r2 \in DOMAIN betas :
        r1 # r2 => betas[r1].identifier # betas[r2].identifier

\* C1: after a completed refresh cycle the firmwares table of api.py has at
\* most one row per (buildid, devices), and the betas table of scraper.py and
\* of ios-beta-api.py has at most one row per identifier.
C1_OneRecordPerKey ==
    /\ ApiCycleCompleted => NoDuplicateFirmwares
    /\ (BetaCycleCompleted \/ ScrCycleCompleted) => NoDuplicateIdentifiers

\* the rows output_data of ios-beta-api.py is about to write
BetaRows ==
    [i \in 1..Len(b_api) |->
        [identifier |-> lower(b_api[i].key),
         firmwares |-> Dumps(ByBuildid(Deref(b_heap, b_api[i].list)))]]

\* the row output_device_data of scraper.py is about to write
ScrRow ==
    [identifier |-> lower(ScrIdentifier),
     firmwares |-> Dumps(ByBuildid(Deref(s_heap, s_api[s_dev].list)))]

\* C2: a refresh cycle that finds what the cycle before it found leaves the
\* store as it was: an output step whose rows are all stored already changes
\* nothing in betas, and a catalog equal to the one of the completed cycle
\* before gives api.py no task to run.
C2_CycleIdempotent ==
    [][ /\ ( /\ program = "ios-beta-api.py"
             /\ b_loop = "sign" /\ b_loop' = "sleep"
             /\ Range(BetaRows) \subseteq Range(betas) )
           => betas' = betas
        /\ ( /\ program = "scraper.py"
             /\ s_loop = "device" /\ s_dpc = "gather" /\ s_dpc' # "gather"
             /\ ScrRow \in Range(betas) )
           => betas' = betas
        /\ ( /\ program = "api.py"
             /\ a_loop = "fetch" /\ a_loop' = "group"
             /\ a_fetched' = a_data )
           => a_ftasks' = <<>> /\ a_dtasks' = <<>> ]_vars

\* outbound calls of api.py in flight: the catalog GET, the HEAD probes, the
\* sibling GETs, the archive reads and the signing POSTs
ApiInFlight ==
    (IF a_loop = "fetch" THEN 1 ELSE 0)
    + Cardinality({i \in DOMAIN a_ftasks :
                      a_ftasks[i].pc \in {"head", "sibling", "archive"}})
    + Cardinality({qk \in SignedTasks : SignedTaskOf(qk).pc = "post"})

\* outbound calls of scraper.py in flight
ScrInFlight ==
    (IF s_loop = "device" /\ s_dpc = "ipsw" THEN 1 ELSE 0)
    + Cardinality({p \in DOMAIN s_ptasks : s_ptasks[p].pc = "get"})
    + Cardinality({k \in DOMAIN s_tasks :
                      s_tasks[k].pc \in {"sibling", "full", "archive", "post"}})

\* C3: the outbound network calls in flight, of the refresh loop and of the
\* lookup requests together, never number more than the limiter's capacity.
C3_InFlightBounded ==
    /\ program = "api.py" => ApiInFlight <= Capacity
    /\ program = "scraper.py" => ScrInFlight <= Capacity

ApiHolders ==
    Cardinality({i \in DOMAIN a_ftasks : Holding(a_ftasks[i])})
    + Cardinality({qk \in SignedTasks : Holding(SignedTaskOf(qk))})

ScrHolders ==
    (IF s_loop = "device" /\ s_dpc = "ipsw" THEN 1 ELSE 0)
    + Cardinality({p \in DOMAIN s_ptasks : Holding(s_ptasks[p])})
    + Cardinality({k \in DOMAIN s_tasks : Holding(s_tasks[k])})

\* C4: the free units of the limiter are the capacity less the tasks inside
\* their guarded call, whichever way the others left it (return, exception,
\* timeout, cancellation): never below zero, never above the capacity, and
\* the capacity again once every task has finished.
C4_UnitsReleased ==
    /\ HTTP_SEMAPHORE \in 0..Capacity
    /\ HTTP_SEMAPHORE = Capacity - ApiHolders
    /\ ( /\ \A i \in DOMAIN a_ftasks : a_ftasks[i].pc \in Terminal
         /\ \A qk \in SignedTasks : SignedTaskOf(qk).pc \in Terminal )
       => HTTP_SEMAPHORE = Capacity
    /\ http_semaphore \in 0..Capacity
    /\ http_semaphore = Capacity - ScrHolders
    /\ ( /\ \A p \in DOMAIN s_ptasks : s_ptasks[p].pc \in Terminal
         /\ \A k \in DOMAIN s_tasks : s_tasks[k].pc \in Terminal
         /\ ~(s_loop = "device" /\ s_dpc = "ipsw") )
       => http_semaphore = Capacity

\* more firmware tasks than units; one timed out in its HEAD probe, one was
\* cancelled, the others returned, and every unit is free again
C4_Witness ==
    /\ program = "api.py"
    /\ Len(a_ftasks) > Capacity
    /\ \A i \in DOMAIN a_ftasks : a_ftasks[i].pc \in Terminal
    /\ \E i \in DOMAIN a_ftasks :
          a_ftasks[i].pc = "failed" /\ a_ftasks[i].exc = "TimeoutError"
    /\ \E i \in DOMAIN a_ftasks : a_ftasks[i].pc = "cancelled"
    /\ \E i \in DOMAIN a_ftasks : a_ftasks[i].pc = "done"
    /\ HTTP_SEMAPHORE = Capacity

\* a response body as Tatsu writes it: STATUS=<n>&MESSAGE=<text>...
WellFormed(text) == Len(text) >= 7 /\ SubSeq(text, 1, 7) = "STATUS="

HasSuccess(text) == Contains(text, "MESSAGE=SUCCESS")

Negative(rows, identifier, buildid) ==
    \E r \in DOMAIN rows :
        /\ rows[r].identifier = identifier
        /\ \E j \in DOMAIN rows[r].firmwares :
              LET firm == rows[r].firmwares[j] IN
              /\ firm.buildid = buildid
              /\ "signed" \in DOMAIN firm
              /\ ~firm.signed

\* C6: a signing check that ended in a transport failure or got a malformed
\* answer leaves its pair without a verdict: the pair is neither written to
\* the store nor returned with signed = FALSE.
C6_UnknownNeverNegative ==
    /\ BetaCycleCompleted =>
          \A th \in DOMAIN b_sign :
              (b_sign[th].pc = "done" /\ b_sign[th].stdout = StdoutError)
                 => ~Negative(SubSeq(betas, Len(betas) - Len(b_api) + 1, Len(betas)),
                              lower(b_sign[th].device),
                              b_heap[b_sign[th].cur].buildid)
    /\ (program = "scraper.py" /\ s_dpc # "gather") =>
          \A k \in DOMAIN s_tasks :
              LET t == s_tasks[k] IN
              (t.pc = "done" /\ t.text # "" /\ ~WellFormed(t.text))
                 => ~Negative(betas, lower(t.device.identifier), s_heap[t.ref].buildid)
    /\ \A q \in DOMAIN a_req :
          (a_req[q].pc = "done" /\ a_req[q].status = 200) =>
             \A k \in DOMAIN a_req[q].tasks :
                 LET t == a_req[q].tasks[k] IN
                 (t.pc = "done" /\ t.text # "" /\ ~WellFormed(t.text))
                    => \/ t.result = <<>>
                       \/ t.result[1].signed

\* the ticket fields a request for chip id c has to have
TicketFields(c, request) ==
    IF int16("0x8900") <= c /\ c < int16("0x8960")
    THEN /\ "@APTicket" \in DOMAIN request
         /\ DOMAIN request \cap {"@ApImg4Ticket", "ApSecurityMode", "SepNonce"} = {}
    ELSE /\ {"@ApImg4Ticket", "ApSecurityMode", "SepNonce"} \subseteq DOMAIN request
         /\ "@APTicket" \notin DOMAIN request

\* the requests that are ready for the POST
TssRequests ==
    Range(t_out.api) \cup (IF t_out.identity THEN Range(t_out.scraper) ELSE {})

\* C7: for a chip id from 0x8900 up to but not 0x8960 the request has
\* @APTicket and none of @ApImg4Ticket, ApSecurityMode, SepNonce, for every
\* other chip id it is the other way round; and it carries ApECID = 1,
\* ApSecurityDomain = 1, ApProductionMode = TRUE and the unique build id of
\* the identity.
C7_RequestFields ==
    \A request \in TssRequests :
        /\ TicketFields(t_in.chip_id, request)
        /\ request.ApChipID = t_in.chip_id
        /\ request.ApECID = 1
        /\ request.ApSecurityDomain = 1
        /\ request.ApProductionMode = TRUE
        /\ request.UniqueBuildID = t_in.unique_buildid

\* both programs have built their request for the first 32-bit chip id
C7_Witness ==
    /\ t_in.chip_id = int16("0x8900")
    /\ t_out.api # <<>>
    /\ t_out.scraper # <<>>
    /\ t_out.identity
    /\ \A request \in TssRequests : "@APTicket" \in DOMAIN request

\* list is in descending order of buildid, as strings
DescendingByBuildid(list) ==
    \A i, j \in DOMAIN list :
        i < j => ~StrLess(list[i].buildid, list[j].buildid)

\* C8: every list of records made for a device, by the lookup handler and by
\* the output step of each scraper, is in descending string order of buildid.
C8_SortedByBuildid ==
    /\ \A q \in DOMAIN a_req :
          a_req[q].status = 200 => DescendingByBuildid(a_req[q].response)
    /\ \A r \in DOMAIN betas : DescendingByBuildid(betas[r].firmwares)
    /\ \A f \in DOMAIN w_files : DescendingByBuildid(w_files[f].json)

\* C9: a candidate whose manifest cannot be had, by the sibling path or from
\* the archive, on any attempt, is skipped: its task ends without an
\* exception and does not stop the cycle.
C9_ManifestFailureSkips ==
    /\ \A i \in DOMAIN a_ftasks :
          a_ftasks[i].exc \notin {"UnboundLocalError", "TypeError"}
    /\ \A k \in DOMAIN s_tasks : s_tasks[k].exc # "ValueError: list.remove"

\* C10: a task that fails takes no other task with it: no task of the cycle
\* is cancelled, and the refresh loop does not end.
C10_FailureIsolated ==
    /\ \A i \in DOMAIN a_ftasks :
          ~a_ftasks[i].cancel /\ a_ftasks[i].pc # "cancelled"
    /\ \A d \in DOMAIN a_dtasks :
          ~a_dtasks[d].cancel /\ a_dtasks[d].pc # "cancelled"
    /\ a_loop # "aborting"
    /\ \A k \in DOMAIN s_tasks :
          ~s_tasks[k].cancel /\ s_tasks[k].pc # "cancelled"
    /\ (\E k \in DOMAIN s_tasks : s_tasks[k].pc = "failed") => s_loop # "dead"

\* the place in manifest order of the first identity for boardconfig (case
\* put aside) whose RestoreBehavior is Erase, 0 when there is none
FirstErase(identities, boardconfig) ==
    LET fits == {i \in DOMAIN identities :
                    /\ casefold(identities[i].Info.DeviceClass) = casefold(boardconfig)
                    /\ identities[i].Info.RestoreBehavior = "Erase"}
    IN IF fits = {} THEN 0 ELSE CHOOSE i \in fits : \A j \in fits : i <= j

\* the signing request of scraper.py carries the first Erase identity
ScrUsesFirstErase ==
    \A k \in DOMAIN s_tasks :
        LET t == s_tasks[k]
            ids == BuildManifestOf(s_heap[t.ref].url)
            i == FirstErase(ids, t.device.boardconfig)
        IN t.pc \in {"post_wait", "post"}
              => i # 0 /\ t.request.UniqueBuildID = ids[i].UniqueBuildID

\* the signing request of api.py carries the first Erase identity
ApiUsesFirstErase ==
    \A qk \in SignedTasks :
        LET t == SignedTaskOf(qk)
            ids == BuildManifestOf(t.firmware.url)
            i == FirstErase(ids, t.boardconfig)
        IN t.pc = "post"
              => i # 0 /\ t.request.UniqueBuildID = ids[i].UniqueBuildID

\* C11: the identity a signing check is made with is the first identity of the
\* manifest, in manifest order, whose DeviceClass is the target board config
\* (case put aside) and whose RestoreBehavior is Erase; when there is none, no
\* check is made with any identity.
C11_FirstEraseIdentity == ScrUsesFirstErase /\ ApiUsesFirstErase

\* the rows of a betas table that hold identifier
RowsOf(table, identifier) ==
    {r \in DOMAIN table : table[r].identifier = identifier}

\* the store holds row, and no other row for the identifier of row
HoldsExactly(table, row) ==
    \E r \in DOMAIN table :
        /\ table[r] = row
        /\ RowsOf(table, row.identifier) = {r}

\* C12: a store write for a key replaces in place: right after the write the
\* betas table holds exactly the new record for that key, with no earlier
\* record of the key left to be read and no second row for it.
C12_UpsertInPlace ==
    [][ /\ ( /\ program = "scraper.py"
             /\ s_loop = "device" /\ s_dpc = "gather" /\ s_dpc' # "gather" )
           => HoldsExactly(betas', ScrRow)
        /\ ( /\ program = "ios-beta-api.py"
             /\ b_loop = "sign" /\ b_loop' = "sleep" )
           => \A i \in DOMAIN BetaRows : HoldsExactly(betas', BetaRows[i]) ]_vars

\* the upsert of scraper.py alone
ScrUpsertInPlace ==
    [][ ( /\ program = "scraper.py"
          /\ s_loop = "device" /\ s_dpc = "gather" /\ s_dpc' # "gather" )
        => HoldsExactly(betas', ScrRow) ]_vars

\* the ipsw sources of a catalog entry
IpswSources(firm) ==
    {s \in DOMAIN firm.sources : firm.sources[s].type = "ipsw"}

HasManifestRow(build) ==
    \E r \in DOMAIN buildmanifest : buildmanifest[r].buildid = build

\* the record of the pair was written, and its manifest or its identities
\* were absent: nothing of its build is in buildmanifest
SkippedPair(firm) ==
    /\ ~HasManifestRow(firm.build)
    /\ \E s \in IpswSources(firm) :
          FirmwareKnown(firmwares, firm.build, firm.sources[s].deviceMap)

\* identities of the build were stored with the record of the pair, and a
\* lookup that missed the identity of its device has deleted the record
DeletedPair(firm) ==
    /\ HasManifestRow(firm.build)
    /\ \E s \in IpswSources(firm) :
          ~FirmwareKnown(firmwares, firm.build, firm.sources[s].deviceMap)

\* scrape_data, in a cycle after a completed one, gives a task to every
\* entry of the set that the catalog lists as the cycle before saw it
TaskForEach(pending(_)) ==
    ( /\ program = "api.py"
      /\ a_loop = "fetch" /\ a_loop' = "group" )
    => \A i \in DOMAIN a_fetched'.ios :
          LET firm == a_fetched'.ios[i]
          IN ( /\ firm \in Range(a_data.ios)
               /\ firm.beta /\ firm.hasSources
               /\ pending(firm) )
             => \E k \in DOMAIN a_ftasks' : a_ftasks'[k].firm = firm

SkippedResolvedAgain == [][TaskForEach(SkippedPair)]_vars

DeletedResolvedAgain == [][TaskForEach(DeletedPair)]_vars

\* C13: a pair that a refresh skipped because its manifest or identity was
\* absent, and a pair whose record a lookup deleted for want of identity
\* data, gets a task again in the next refresh cycle whose catalog lists it,
\* also when the catalog lists it exactly as before.
C13_ResolvedAgain ==
    [][TaskForEach(SkippedPair) /\ TaskForEach(DeletedPair)]_vars

\* get_firmwares of scraper.py and of ios-beta-api.py: SELECT firmwares FROM
\* betas WHERE identifier = ? with identifier.lower(), fetchone(), 404 when
\* there is no row
GetFirmwares(table, identifier) ==
    LET found == RowsOf(table, lower(identifier))
    IN IF found = {} THEN [status |-> 404, response |-> <<>>]
       ELSE [status |-> 200,
             response |-> table[CHOOSE r \in found : \A o \in found : r <= o].firmwares]

\* a lookup of api.py that answers 200 answers a list that is not empty
ApiNeverEmptySuccess ==
    \A q \in DOMAIN a_req :
        (a_req[q].pc = "done" /\ a_req[q].status = 200) => a_req[q].response # <<>>

\* a lookup over the betas table that answers 200 answers a list that is not
\* empty
BetasNeverEmptySuccess ==
    program \in {"scraper.py", "ios-beta-api.py"}
        => \A identifier \in Identifiers :
              LET answer == GetFirmwares(betas, identifier)
              IN answer.status = 200 => answer.response # <<>>

\* C14: GET /betas/{identifier} answers not-found when the store has no
\* record for the identifier, also when the signing check dropped every
\* record, and the list that is not empty otherwise: it never answers
\* success with an empty list.
C14_NeverEmptySuccess == ApiNeverEmptySuccess /\ BetasNeverEmptySuccess

\* the records of the firmwares table whose device set has identifier as one
\* of its members
RecordsOf(identifier) ==
    {[version |-> firmwares[r].version, buildid |-> firmwares[r].buildid,
      filesize |-> firmwares[r].size, url |-> firmwares[r].url] :
        r \in {o \in DOMAIN firmwares :
                  identifier \in Range(Split(firmwares[o].devices, ", "))}}

\* the board configs the devices table has for identifier itself
BoardsOf(identifier) ==
    {devices[r].boardconfig :
        r \in {o \in DOMAIN devices : devices[o].identifier = identifier}}

\* the lookup takes up only the records of the identifier it was asked for
OwnRecordsOnly(q) ==
    (a_req[q].pc = "select" /\ a_req'[q].pc = "group")
        => \A k \in DOMAIN a_req'[q].tasks :
              a_req'[q].tasks[k].firmware \in RecordsOf(a_req[q].identifier)

\* the signing check takes the board config of the identifier it was asked
\* for
OwnBoardOnly(q) ==
    \A k \in DOMAIN a_req[q].tasks \cap DOMAIN a_req'[q].tasks :
        ( /\ a_req[q].tasks[k].pc = "devices"
          /\ a_req'[q].tasks[k].pc = "manifest" )
        => a_req'[q].tasks[k].boardconfig \in BoardsOf(a_req[q].identifier)

LookupOwnRecords ==
    [][\A q \in DOMAIN a_req \cap DOMAIN a_req' : OwnRecordsOnly(q)]_vars

LookupOwnBoard ==
    [][\A q \in DOMAIN a_req \cap DOMAIN a_req' : OwnBoardOnly(q)]_vars

\* C15: a lookup for an identifier takes up only records whose device set
\* has that identifier as a member and checks them with the board config of
\* that identifier: the rows of another device whose identifier merely
\* contains it (iPad7,11 for iPad7,1) never contribute.
C15_ExactIdentifier ==
    [][\A q \in DOMAIN a_req \cap DOMAIN a_req' :
          OwnRecordsOnly(q) /\ OwnBoardOnly(q)]_vars

\* api.py, at the end of the first refresh cycle: every record of firmwares
\* has identities of its build in buildmanifest, so no record is left of a
\* candidate whose manifest was None or gave no identity
ApiNotFoundLeavesNothing ==
    (program = "api.py" /\ a_loop = "sleep" /\ a_cycles = 1)
        => \A r \in DOMAIN firmwares : HasManifestRow(firmwares[r].buildid)

\* scraper.py: the row output_device_data writes lists only firms whose
\* signing check was answered, none that check_firmware ended as not found
ScrNotFoundLeavesNothing ==
    [][ ( /\ program = "scraper.py"
          /\ s_loop = "device" /\ s_dpc = "gather" /\ s_dpc' # "gather" )
        => \A j \in DOMAIN ScrRow.firmwares :
              "signed" \in DOMAIN ScrRow.firmwares[j] ]_vars

\* C16: when the manifest of a candidate or its identity is not found, the
\* store has no record of that candidate written by this cycle.
C16_NotFoundLeavesNothing ==
    [][ /\ ApiNotFoundLeavesNothing'
        /\ ( /\ program = "scraper.py"
             /\ s_loop = "device" /\ s_dpc = "gather" /\ s_dpc' # "gather" )
           => \A j \in DOMAIN ScrRow.firmwares :
                 "signed" \in DOMAIN ScrRow.firmwares[j] ]_vars

\* the betas row of identifier lists a firm of that buildid
BetasKnown(identifier, buildid) ==
    \E r \in RowsOf(betas, lower(identifier)) :
        \E j \in DOMAIN betas[r].firmwares : betas[r].firmwares[j].buildid = buildid

\* api.py: no task probes, fetches or writes for a source whose
\* (buildid, devices) has a record; link is the last link looked at
ApiKnownLeftAlone(link) ==
    \A i \in DOMAIN a_ftasks :
        LET t == a_ftasks[i]
        IN (t.pc = "head" /\ t.lnk <= link)
              => ~FirmwareKnown(firmwares, t.firm.build,
                                t.firm.sources[t.src].deviceMap)

\* the first link of a source is probed only when the pair has no record
ApiKnownNotProbed == ApiKnownLeftAlone(1)

\* scraper.py: no check_firmware task fetches or posts for a firm that the
\* stored record of its device lists
ScrKnownLeftAlone ==
    \A k \in DOMAIN s_tasks :
        LET t == s_tasks[k]
        IN t.pc \in {"sibling", "full_wait", "full", "archive", "post_wait", "post"}
              => ~BetasKnown(t.device.identifier, s_heap[t.ref].buildid)

\* C17: a candidate whose (buildid, device set) has a record in the store is
\* not processed again: no HEAD probe, no manifest fetch, no signing request
\* and no store write is made for it.
C17_KnownLeftAlone == ApiKnownLeftAlone(2) /\ ScrKnownLeftAlone

\* api.py: the task that writes a record into firmwares has, for the link it
\* writes, the parsed manifest, and buildmanifest has the identities of the
\* build
ApiStagesInOrder ==
    [][ Len(firmwares') > Len(firmwares)
        => \E i \in DOMAIN a_ftasks :
              LET t == a_ftasks[i]
              IN /\ t.pc = "insert"
                 /\ t.manifest = Dict(LinkUrl(t))
                 /\ HasManifestRow(t.firm.build) ]_vars

\* scraper.py: every firm of the row that output_device_data writes has a
\* check_firmware task that got the answer of the signing server
ScrAnswered ==
    ( /\ program = "scraper.py"
      /\ s_loop = "device" /\ s_dpc = "gather" /\ s_dpc' # "gather" )
    => \A j \in DOMAIN ScrRow.firmwares :
          \E k \in DOMAIN s_tasks :
              /\ s_tasks[k].pc = "done"
              /\ s_tasks[k].text # ""
              /\ s_heap[s_tasks[k].ref].buildid = ScrRow.firmwares[j].buildid

ScrStagesInOrder == [][ScrAnswered]_vars

\* C18: manifest, identity, signing check and store write come in this
\* order: no record of a pair is written before its manifest was obtained,
\* its identity extracted and its signing check answered.
C18_StagesInOrder ==
    [][ /\ ScrAnswered
        /\ Len(firmwares') > Len(firmwares)
           => \E i \in DOMAIN a_ftasks :
                 /\ a_ftasks[i].pc = "insert"
                 /\ a_ftasks[i].manifest = Dict(LinkUrl(a_ftasks[i]))
                 /\ HasManifestRow(a_ftasks[i].firm.build) ]_vars

\* no task of the refresh cycle of api.py runs
ApiTasksEnded ==
    /\ \A i \in DOMAIN a_ftasks : a_ftasks[i].pc \in {"done", "failed", "cancelled"}
    /\ \A d \in DOMAIN a_dtasks : a_dtasks[d].pc \in {"done", "failed", "cancelled"}

\* no thread of the refresh cycle of ios-beta-api.py runs
BetaThreadsEnded ==
    /\ \A th \in DOMAIN b_build : b_build[th].pc \in {"done", "failed"}
    /\ \A th \in DOMAIN b_sign : b_sign[th].pc \in {"done", "failed"}

\* C19: refresh cycles never overlap: api.py replaces its snapshot, and
\* ios-beta-api.py writes its rows, only when every task of the cycle has
\* ended, and the fetch of the next cycle starts only when no task of the
\* cycle before it runs.
C19_CyclesNeverOverlap ==
    [][ /\ a_data' # a_data => ApiTasksEnded
        /\ a_cycles' # a_cycles => ApiTasksEnded /\ a_loop \in {"start", "sleep"}
        /\ (program = "ios-beta-api.py" /\ betas' # betas) => BetaThreadsEnded
        /\ b_cycles' # b_cycles => BetaThreadsEnded /\ b_loop \in {"start", "sleep"}
      ]_vars

\* the second cycle of api.py runs its tasks after the first one was committed
C19_Witness ==
    /\ program = "api.py"
    /\ a_cycles = 2
    /\ a_loop = "group"
    /\ a_data \in Catalogs
    /\ \E i \in DOMAIN a_ftasks : a_ftasks[i].pc \notin Terminal

\* api.py: no task holds a unit of HTTP_SEMAPHORE while _sync_get_manifest
\* reads the archive in its worker thread
ApiArchiveUnheld ==
    \A i \in DOMAIN a_ftasks : a_ftasks[i].pc = "archive" => ~a_ftasks[i].held

\* scraper.py: no task holds a unit of http_semaphore while
\* _sync_get_manifest reads the archive in its worker thread
ScrArchiveUnheld ==
    \A k \in DOMAIN s_tasks : s_tasks[k].pc = "archive" => ~s_tasks[k].held

\* C20: while the archive read of a candidate runs in its worker thread, the
\* task of the candidate holds no unit of the limiter.
C20_ArchiveReadUnheld == ApiArchiveUnheld /\ ScrArchiveUnheld

\* no link gets more attempts than the loop has turns, and the identities a
\* task stores come from the manifest an attempt returned for the link the
\* task is at
AttemptsOfTheLink ==
    \A i \in DOMAIN a_ftasks :
        LET t == a_ftasks[i]
        IN /\ t.attempt <= MaxAttempts
           /\ t.pc \in {"bm_select", "bm_insert"} => t.manifest = Dict(LinkUrl(t))

\* C21: manifest resolution is tried at most the fixed number of times per
\* link and stops at the first attempt that yields a manifest; what is parsed
\* for a link was returned by an attempt for that link; and a link none of
\* whose attempts yields a manifest, each returning nothing or raising, is
\* skipped with nothing parsed and nothing raised.
C21_BoundedAttempts ==
    /\ AttemptsOfTheLink
    /\ \A i \in DOMAIN a_ftasks :
          a_ftasks[i].pc = "failed"
              => a_ftasks[i].exc \notin {"UnboundLocalError", "TypeError"}

\* C22: the lookup path only reads the store: no step of the handling of a
\* GET /betas/{identifier} request, whatever its signing checks answer,
\* changes the firmwares, devices or buildmanifest table.
C22_LookupReadOnly ==
    [][ a_req' # a_req
        => /\ firmwares' = firmwares
           /\ devices' = devices
           /\ buildmanifest' = buildmanifest ]_vars

\* The refresh cycles of api.py and of scraper.py on their own: no lookup
\* request comes in, each program runs LiveCycles cycles, and the catalog
\* api.py fetches lists at most LiveDevices devices.
LiveCycles == 1

LiveDevices == 2

InitLive == Init /\ program \in {"api.py", "scraper.py"}

NextLive ==
    \/ Api_main_loop /\ a_cycles' <= LiveCycles
    \/ Api_scrape_data /\ Len(a_fetched'.device) <= LiveDevices
    \/ Api_scrape_data_raise
    \/ \E i \in DOMAIN a_ftasks : Api_bound_scrape_firmware(i)
    \/ \E i \in DOMAIN a_ftasks : Api_scrape_firmware_select(i)
    \/ \E i \in DOMAIN a_ftasks : Api_scrape_firmware_head(i)
    \/ \E i \in DOMAIN a_ftasks : Api_scrape_firmware_insert(i)
    \/ \E i \in DOMAIN a_ftasks : Api_get_manifest(i)
    \/ \E i \in DOMAIN a_ftasks : Api_sync_get_manifest(i)
    \/ \E i \in DOMAIN a_ftasks : Api_buildmanifest_select(i)
    \/ \E i \in DOMAIN a_ftasks : Api_buildmanifest_insert(i)
    \/ \E i \in DOMAIN a_ftasks : Api_firmware_cancelled(i)
    \/ \E d \in DOMAIN a_dtasks : Api_scrape_device_select(d)
    \/ \E d \in DOMAIN a_dtasks : Api_scrape_device_insert(d)
    \/ \E d \in DOMAIN a_dtasks : Api_device_cancelled(d)
    \/ Api_scrape_data_return
    \/ Api_scrape_data_abort
    \/ Scr_main /\ s_cycles' <= LiveCycles
    \/ \E p \in DOMAIN s_ptasks : Scr_get_pages(p)
    \/ \E p \in DOMAIN s_ptasks : Scr_get_pages_response(p)
    \/ \E p \in DOMAIN s_ptasks : Scr_parse_page(p)
    \/ \E p \in DOMAIN s_ptasks : Scr_parse_page_response(p)
    \/ \E p \in DOMAIN s_ptasks : Scr_page_cancelled(p)
    \/ Scr_main_parse
    \/ Scr_main_devices
    \/ Scr_check_device_signed_firmwares
    \/ Scr_ipsw_api
    \/ \E k \in DOMAIN s_tasks : Scr_check_firmware(k)
    \/ \E k \in DOMAIN s_tasks : Scr_get_manifest(k)
    \/ \E k \in DOMAIN s_tasks : Scr_get_manifest_url(k)
    \/ \E k \in DOMAIN s_tasks : Scr_get_manifest_status(k)
    \/ \E k \in DOMAIN s_tasks : Scr_sync_get_manifest(k)
    \/ \E k \in DOMAIN s_tasks : Scr_check_firmware_post(k)
    \/ \E k \in DOMAIN s_tasks : Scr_check_firmware_signed(k)
    \/ \E k \in DOMAIN s_tasks : Scr_check_firmware_cancelled(k)
    \/ Scr_output_device_data

\* The event loop of asyncio runs every task that is ready, its semaphore
\* wakes the waiters in the order they came, and every network call returns
\* or fails: a step of the program that can be taken is taken in the end.
SpecLive == InitLive /\ [][NextLive]_vars /\ WF_vars(NextLive)

\* a task that waits for a unit of the limiter holds none
NoWaitWhileHolding ==
    /\ \A i \in DOMAIN a_ftasks : a_ftasks[i].pc = "created" => ~a_ftasks[i].held
    /\ \A qk \in SignedTasks :
          SignedTaskOf(qk).pc = "created" => ~SignedTaskOf(qk).held
    /\ \A k \in DOMAIN s_tasks :
          s_tasks[k].pc \in {"created", "full_wait", "post_wait"} => ~s_tasks[k].held
    /\ \A p \in DOMAIN s_ptasks : s_ptasks[p].pc = "created" => ~s_ptasks[p].held

\* every task ends, by return, exception or cancellation, and the task group
\* or gather is left: the limiter never blocks a cycle for good
TasksEnd ==
    (a_loop = "group" \/ (s_loop = "device" /\ s_dpc = "gather"))
        ~> \/ program = "api.py" /\ a_loop \in {"sleep", "dead"}
           \/ /\ program = "scraper.py"
              /\ \/ s_dpc # "gather"
                 \/ s_loop = "dead" /\ \A k \in DOMAIN s_tasks : s_tasks[k].pc \in Terminal

\* C23: no task waits for a unit of the limiter while it holds one, so, with
\* more tasks than units and every network call returning or failing in the
\* end, every cycle whose tasks have started completes: its task group or
\* gather is left with every task finished, and the loop goes on.
C23_LimiterLiveness ==
    (NoWaitWhileHolding /\ (a_loop = "group" \/ (s_loop = "device" /\ s_dpc = "gather")))
        ~> ( /\ NoWaitWhileHolding
             /\ \/ a_loop = "sleep"
                \/ program = "scraper.py" /\ s_loop # "dead" /\ s_dpc # "gather" )

\* ---- one key in two tasks of a cycle -----------------------------------

\* a second catalog entry of build 19A5339a: the iOS entry of the build that
\* the iPadOS entry Fw19A lists too, pointing at the same archive
Fw19Ai == Firmware("iOS", "15.0 beta 8", "19A5339a", TRUE,
                   <<Source("ipsw", <<"iPad7,11">>, 5, <<UrlC>>)>>)

SharedBuildCatalog == [ios |-> <<Fw19A, Fw19Ai>>, device |-> <<DevPad1, DevPad11>>]

\* scrape_data when the catalog answered is SharedBuildCatalog
Api_scrape_data_shared ==
    /\ program = "api.py"
    /\ a_loop = "fetch"
    /\ a_req = <<>>
    /\ LET fws == ScrapedFirmwares(SharedBuildCatalog, a_data)
           dvs == ScrapedDevices(SharedBuildCatalog, a_data)
       IN /\ a_fetched' = SharedBuildCatalog
          /\ a_ftasks' = [i \in 1..Len(fws) |-> FirmwareTask(fws[i])]
          /\ a_dtasks' = [i \in 1..Len(dvs) |-> DeviceTask(dvs[i])]
    /\ a_loop' = "group"
    /\ UNCHANGED <<firmwares, devices, buildmanifest, HTTP_SEMAPHORE, a_data,
                   a_cycles, a_req>>
    /\ ApiFrame

InitShared == Init /\ program = "api.py"

NextShared ==
    \/ Api_main_loop
    \/ Api_scrape_data_shared
    \/ Api_scrape_data_raise
    \/ \E i \in DOMAIN a_ftasks : Api_bound_scrape_firmware(i)
    \/ \E i \in DOMAIN a_ftasks : Api_scrape_firmware_select(i)
    \/ \E i \in DOMAIN a_ftasks : Api_scrape_firmware_head(i)
    \/ \E i \in DOMAIN a_ftasks : Api_scrape_firmware_insert(i)
    \/ \E i \in DOMAIN a_ftasks : Api_get_manifest(i)
    \/ \E i \in DOMAIN a_ftasks : Api_sync_get_manifest(i)
    \/ \E i \in DOMAIN a_ftasks : Api_buildmanifest_select(i)
    \/ \E i \in DOMAIN a_ftasks : Api_buildmanifest_insert(i)
    \/ \E i \in DOMAIN a_ftasks : Api_firmware_cancelled(i)
    \/ \E d \in DOMAIN a_dtasks : Api_scrape_device_select(d)
    \/ \E d \in DOMAIN a_dtasks : Api_scrape_device_insert(d)
    \/ \E d \in DOMAIN a_dtasks : Api_device_cancelled(d)
    \/ Api_scrape_data_return
    \/ Api_scrape_data_abort

SpecShared == InitShared /\ [][NextShared]_vars

\* no key of buildmanifest in two rows
OneManifestRowPerKey ==
    \A r, s \in 1..Len(buildmanifest) :
        /\ buildmanifest[r].boardconfig = buildmanifest[s].boardconfig
        /\ buildmanifest[r].buildid = buildmanifest[s].buildid
        => r = s

\* no key of devices in two rows
OneDeviceRowPerKey ==
    \A r, s \in 1..Len(devices) :
        /\ devices[r].identifier = devices[s].identifier
        /\ devices[r].boardconfig = devices[s].boardconfig
        => r = s

\* C24: under every interleaving of the firmware tasks and the device tasks
\* of a cycle, buildmanifest holds at most one row per (boardconfig, buildid)
\* and devices at most one row per (identifier, boardconfig)
C24_OneRowPerKey == OneManifestRowPerKey /\ OneDeviceRowPerKey

\* ---- the delete for retry ------------------------------------------------

\* the rows of table that record build buildid for device identifier
PairRecords(table, buildid, identifier) ==
    {table[r] : r \in {o \in DOMAIN table :
                          /\ table[o].buildid = buildid
                          /\ identifier \in Range(Split(table[o].devices, ", "))}}

\* task k of request q takes its DELETE step
DeleteStep(q, k) ==
    /\ a_req[q].tasks[k].pc = "delete"
    /\ q \in DOMAIN a_req'
    /\ k \in DOMAIN a_req'[q].tasks
    /\ a_req'[q].tasks[k].pc = "done"
    /\ firmwares' # firmwares

\* C25: the delete of the record of one (build, device) pair leaves the
\* records of every other pair as they were: the other builds of the same
\* device, and the same build as the other devices see it
C25_DeleteOnePair ==
    [][ \A q \in DOMAIN a_req : \A k \in DOMAIN a_req[q].tasks :
          DeleteStep(q, k)
              => \A d \in Identifiers :
                 \A b \in {firmwares[r].buildid : r \in DOMAIN firmwares} :
                    <<b, d>> # <<a_req[q].tasks[k].firmware.buildid, a_req[q].identifier>>
                        => PairRecords(firmwares', b, d) = PairRecords(firmwares, b, d)
      ]_vars

\* ---- one firm dict in the lists of several devices -----------------------

\* every row of every table of the wiki
WikiRows == UNION {Range(PageRows(Titles[t])) : t \in 1..Len(Titles)}

\* firm['buildid'], firm['url'] and firm['filesize'] as the turn of device
\* number d (from 0) of `for d in range(len(devices))` selects them
Selected(row, d) ==
    LET firm_index == FirmIndex(Len(row.devices), d)
        buildids == BuildidsOf[row.buildcell]
    IN [buildid |-> IF Len(buildids) > 1 THEN buildids[firm_index + 1]
                    ELSE buildids[1],
        url |-> IF Len(row.urls) > 1 THEN row.urls[firm_index + 1] ELSE row.urls[1],
        filesize |-> IF Len(row.urls) > 1 THEN row.sizes[firm_index + 1]
                     ELSE row.sizes[1]]

\* every record betas holds for a device carries the build id, the URL and
\* the file size selected for that device's position in some row of the wiki
PersistedForPosition ==
    \A r \in DOMAIN betas : \A j \in DOMAIN betas[r].firmwares :
        LET f == betas[r].firmwares[j] IN
        \E row \in WikiRows : \E d \in 0..(Len(row.devices) - 1) :
            /\ row.urls # <<>>
            /\ lower(row.devices[d + 1]) = betas[r].identifier
            /\ f.version = row.version
            /\ f.buildid = Selected(row, d).buildid
            /\ f.url = Selected(row, d).url
            /\ f.filesize = Selected(row, d).filesize

\* the tsschecker step of the thread of one device leaves the records of
\* every other device as they were
ChecksOwnRecords ==
    \A th \in DOMAIN b_sign :
        (b_sign[th].pc = "tss" /\ b_heap' # b_heap)
            => \A i \in DOMAIN b_api :
                  b_api[i].key # b_sign[th].device
                      => Deref(b_heap', b_api[i].list) = Deref(b_heap, b_api[i].list)

\* C26: the signed value a device's record carries comes from the check of
\* that device and is never changed by the check of another device that
\* shares the firmware row, and the build id, URL and file size persisted for
\* a device are those selected for that device's position in the row
C26_OwnCheckOwnPosition == [][ChecksOwnRecords /\ PersistedForPosition']_vars

\* ---- one record per build id in a device's list --------------------------

\* no two places of a device's list of self.api refer to firm dicts of one
\* build id
OnePerBuildid(heap, api) ==
    \A i \in DOMAIN api : \A j, l \in DOMAIN api[i].list :
        heap[api[i].list[j]].buildid = heap[api[i].list[l]].buildid => j = l

\* rows parsed in the harness below
MaxRows == 4

\* the tables on their own: any sequence of rows of the wiki, a row of one
\* table met again in another table included
InitParse ==
    /\ program = "parse_page"
    /\ betas = <<>>
    /\ InitApi
    /\ InitScr
    /\ InitBeta
    /\ InitWiki
    /\ t_in = <<>>
    /\ t_out = <<>>

\* one turn of `for firm in range(1, len(table.data()))`
Parse_row ==
    /\ program = "parse_page"
    /\ Len(b_heap) < MaxRows
    /\ \E row \in WikiRows :
          LET st == ParseRows([heap |-> b_heap, api |-> b_api], <<row>>, 1)
          IN /\ b_heap' = st.heap
             /\ b_api' = st.api
    /\ UNCHANGED <<betas, b_loop, b_cycles, b_build, b_sign>>
    /\ BetaFrame

NextParse == Parse_row

SpecParse == InitParse /\ [][NextParse]_vars

\* C27: after any sequence of parsed rows, each device's list of the working
\* set holds at most one record per build id
C27_OneRecordPerBuildid ==
    /\ OnePerBuildid(s_heap, s_api)
    /\ OnePerBuildid(b_heap, b_api)

\* ---- the signing pass of a device ----------------------------------------

\* every record of the list of device number i of api carries `signed`
AllSigned(heap, api, i) ==
    \A j \in DOMAIN api[i].list : "signed" \in heap[api[i].list[j]].keys

\* ios-beta-api.py: the thread of a device has left `for firm in
\* self.api[device]`
BetaPassSigned ==
    \A th \in DOMAIN b_sign :
        b_sign[th].pc = "done"
            => AllSigned(b_heap, b_api, ApiIndex(b_api, b_sign[th].device))

\* scraper.py: the gather of the check_firmware tasks of a device has returned
ScrPassSigned ==
    (s_loop = "device" /\ s_dpc = "gather" /\ AllDone(s_tasks))
        => AllSigned(s_heap, s_api, s_dev)

\* C28: after the signing pass of a device every record that remains in the
\* device's list has been checked and carries a signed field, whatever the
\* length of the list and whichever manifests could not be obtained
C28_PassSignsAll == BetaPassSigned /\ ScrPassSigned

====
